---- MODULE Spec2Model ----
(***************************************************************************)
(* A model of disorderBook.c: a single-symbol limit order book backend.    *)
(* The process reads one command per line and drives it to completion, so  *)
(* every command is one atomic action.  Pointers to ORDER structs are      *)
(* modelled by the order's id (its index in AllOrders), pointers to        *)
(* ACCOUNT structs by the account's index in AllAccounts, and a linked     *)
(* list by the sequence of its nodes from head to tail (node k's prev is   *)
(* node k-1, its next is node k+1).                                        *)
(***************************************************************************)
EXTENDS Integers, Sequences, FiniteSets, TLC

VARIABLES
    AllOrders,              \* ORDER ** AllOrders: order of id i is AllOrders[i + 1]
    HighestKnownOrder,      \* int HighestKnownOrder
    id,                     \* static int id of next_id()
    AllAccounts,            \* ACCOUNT ** AllAccounts: the non-NULL slots, by account_int
    CurrentAccountArrayLen, \* int CurrentAccountArrayLen
    FirstBidLevel,          \* the chain of bid LEVELs, head first
    FirstAskLevel,          \* the chain of ask LEVELs, head first
    Quote,                  \* QUOTE Quote
    clock,                  \* the statics of new_timestamp(): last_time, fake_micro
    wall,                   \* what time(NULL) returns now (seconds)
    events,                 \* what the last command wrote to stderr
    reply,                  \* what the last command wrote to stdout
    fault,                  \* "none", or why the process has stopped
    call                    \* the arguments of the last call of a function that a
                            \* specification of one function has made, else <<>>

vars == <<AllOrders, HighestKnownOrder, id, AllAccounts, CurrentAccountArrayLen,
          FirstBidLevel, FirstAskLevel, Quote, clock, wall, events, reply, fault,
          call>>

----------------------------------------------------------------------------
(* Program constants *)

BUY == 1
SELL == 2

LIMIT == 1
MARKET == 2
FOK == 3
IOC == 4

MAXORDERS == 2000000000
MAXACCOUNTS == 5000

TOO_MANY_ORDERS == 1
SILLY_VALUE == 2
TOO_HIGH_ACCOUNT == 3

\* the literal 2147483647 of update_account
INT_CLAMP == 2147483647

\* the growth step of the AllAccounts array
ACCOUNT_CHUNK == 64

----------------------------------------------------------------------------
(* Bounds of the model *)

\* no more than MaxOrders orders are accepted in a run
MaxOrders == 3

\* what the clients send in Spec
Names == {"A"}
AccountInts == {0}
Qtys == {1, 2}
Prices == {1, 2}
Directions == {BUY, SELL}
OrderTypes == {LIMIT, MARKET, FOK, IOC}

----------------------------------------------------------------------------
(* int64_t arithmetic.  An int64_t value v is the record [hi, lo] with     *)
(* v = hi * 2^30 + lo and 0 <= lo < 2^30, so that sums and products of     *)
(* 32-bit operands are computed exactly, as the C code computes them in    *)
(* its int64_t temporaries.                                                *)

I64Base == 2 ^ 30

I64(x) == [hi |-> x \div I64Base, lo |-> x % I64Base]

I64Add(a, b) ==
    LET s == a.lo + b.lo
    IN  [hi |-> a.hi + b.hi + (s \div I64Base), lo |-> s % I64Base]

I64Neg(a) ==
    IF a.lo = 0 THEN [hi |-> 0 - a.hi, lo |-> 0]
                ELSE [hi |-> 0 - a.hi - 1, lo |-> I64Base - a.lo]

I64Sub(a, b) == I64Add(a, I64Neg(b))

I64Less(a, b) == a.hi < b.hi \/ (a.hi = b.hi /\ a.lo < b.lo)

\* (int64_t) a * (int64_t) q for q >= 0, by doubling
RECURSIVE I64Mul(_, _)
I64Mul(a, q) ==
    IF q = 0 THEN I64(0)
    ELSE CHOOSE d \in {IF q % 2 = 1 THEN I64Add(I64Add(h, h), a) ELSE I64Add(h, h) :
                          h \in {I64Mul(a, q \div 2)}} : TRUE

\* (int) v: the low 32 bits, as a signed int
CastInt(v) ==
    LET h == v.hi % 4
    IN  IF h >= 2 THEN (h - 4) * I64Base + v.lo ELSE h * I64Base + v.lo

----------------------------------------------------------------------------
(* Clock *)

\* a timestamp is <<second, microsecond field>>; "" (no timestamp) is <<>>
NoTimestamp == <<>>

\* new_timestamp(): the timestamp it returns and its statics afterwards
new_timestamp(clk, now) ==
    LET micro == IF clk.last_time = now THEN clk.fake_micro + 1 ELSE 0
    IN  [ts |-> <<now, micro>>,
         clk |-> [last_time |-> now, fake_micro |-> micro]]

\* the decimal digits of n >= 0, the highest first
RECURSIVE Digits(_)
Digits(n) == IF n < 10 THEN <<n>> ELSE Append(Digits(n \div 10), n % 10)

\* %06d: at least six digits, zeros in front
RECURSIVE ZeroPadded(_)
ZeroPadded(digits) == IF Len(digits) >= 6 THEN digits ELSE ZeroPadded(<<0>> \o digits)

\* new_timestamp(): the text snprintf() writes.  Up to the second the text has
\* fields of fixed width (years 1000 to 9999), so it is kept as the number of
\* the second; the rest is ".%06dZ" of fake_micro, kept as character codes
timestamp_text(ts) ==
    [second |-> ts[1],
     fraction |-> [i \in 1..Len(ZeroPadded(Digits(ts[2]))) |->
                      48 + ZeroPadded(Digits(ts[2]))[i]] \o <<90>>]

----------------------------------------------------------------------------
(* Formatting *)

\* the fields print_order() prints
print_order(order, accounts) ==
    [ok |-> TRUE,
     direction |-> IF order.direction = BUY THEN "buy" ELSE "sell",
     originalQty |-> order.originalQty,
     qty |-> order.qty,
     price |-> order.price,
     orderType |-> IF order.orderType = LIMIT THEN "limit"
                   ELSE IF order.orderType = MARKET THEN "market"
                   ELSE IF order.orderType = IOC THEN "immediate-or-cancel"
                   ELSE IF order.orderType = FOK THEN "fill-or-kill"
                   ELSE "unknown",
     id |-> order.id,
     account |-> accounts[order.account].name,
     ts |-> order.ts,
     totalFilled |-> order.totalFilled,
     open |-> order.open,
     fills |-> order.fills]

\* the fields print_quote() prints; a field that is left out is the empty set
print_quote(quote) ==
    [ok |-> TRUE,
     bidSize |-> quote.bidSize,
     askSize |-> quote.askSize,
     bidDepth |-> quote.bidDepth,
     askDepth |-> quote.askDepth,
     quoteTime |-> quote.quoteTime,
     bid |-> IF quote.bid >= 0 THEN {quote.bid} ELSE {},
     ask |-> IF quote.ask >= 0 THEN {quote.ask} ELSE {},
     lastTrade |-> IF quote.lastTrade # NoTimestamp THEN {quote.lastTrade} ELSE {},
     lastSize |-> IF quote.lastTrade # NoTimestamp THEN {quote.lastSize} ELSE {},
     last |-> IF quote.lastTrade # NoTimestamp THEN {quote.last} ELSE {}]

\* create_ticker_message(): the message written to stderr
create_ticker_message(quote) ==
    [type |-> "TICKER", account |-> "NONE", quote |-> print_quote(quote)]

\* a variant of create_execution_messages that writes the message to the
\* incoming account first: C22 tells it from create_execution_messages
create_execution_messages_incoming_first(orders, accounts, standing, incoming, quantity, price, ts) ==
    LET s == orders[standing + 1]
        i == orders[incoming + 1]
        msg(o) == [type |-> "EXECUTION",
                   account |-> accounts[o.account].name,
                   order |-> print_order(o, accounts),
                   standingId |-> s.id,
                   incomingId |-> i.id,
                   price |-> price,
                   filled |-> quantity,
                   filledAt |-> ts,
                   standingComplete |-> ~s.open,
                   incomingComplete |-> ~i.open]
    IN  <<msg(i), msg(s)>>

\* create_execution_messages(): the two messages written to stderr
create_execution_messages(orders, accounts, standing, incoming, quantity, price, ts) ==
    LET s == orders[standing + 1]
        i == orders[incoming + 1]
        msg(o) == [type |-> "EXECUTION",
                   account |-> accounts[o.account].name,
                   order |-> print_order(o, accounts),
                   standingId |-> s.id,
                   incomingId |-> i.id,
                   price |-> price,
                   filled |-> quantity,
                   filledAt |-> ts,
                   standingComplete |-> ~s.open,
                   incomingComplete |-> ~i.open]
    IN  <<msg(s), msg(i)>>

----------------------------------------------------------------------------
(* Accounts *)

init_account(name) ==
    [name |-> name, orders |-> <<>>, posmin |-> 0, posmax |-> 0,
     shares |-> 0, cents |-> 0]

\* a variant of update_account that takes posmin and posmax from the share
\* count before it is clamped, cast to int: C14 tells it from update_account
update_account_unclamped(account, quantity, price, direction) ==
    LET s64 == IF direction = BUY
               THEN I64Add(I64(account.shares), I64(quantity))
               ELSE I64Sub(I64(account.shares), I64(quantity))
        shares == IF direction = BUY
                  THEN (IF I64Less(I64(INT_CLAMP), s64) THEN INT_CLAMP ELSE CastInt(s64))
                  ELSE (IF I64Less(s64, I64(0 - INT_CLAMP)) THEN 0 - INT_CLAMP ELSE CastInt(s64))
        amount == I64Mul(I64(price), quantity)
        c64 == IF direction = BUY
               THEN I64Sub(I64(account.cents), amount)
               ELSE I64Add(I64(account.cents), amount)
        cents == IF direction = BUY
                 THEN (IF I64Less(c64, I64(0 - INT_CLAMP)) THEN 0 - INT_CLAMP ELSE CastInt(c64))
                 ELSE (IF I64Less(I64(INT_CLAMP), c64) THEN INT_CLAMP ELSE CastInt(c64))
    IN  [account EXCEPT !.shares = shares,
                        !.cents = cents,
                        !.posmin = IF CastInt(s64) < @ THEN CastInt(s64) ELSE @,
                        !.posmax = IF CastInt(s64) > @ THEN CastInt(s64) ELSE @]

\* a variant of update_account whose product price * quantity is an int, so
\* that it wraps at 32 bits: C10 tells it from update_account
update_account_int32(account, quantity, price, direction) ==
    LET s64 == IF direction = BUY
               THEN I64Add(I64(account.shares), I64(quantity))
               ELSE I64Sub(I64(account.shares), I64(quantity))
        shares == IF direction = BUY
                  THEN (IF I64Less(I64(INT_CLAMP), s64) THEN INT_CLAMP ELSE CastInt(s64))
                  ELSE (IF I64Less(s64, I64(0 - INT_CLAMP)) THEN 0 - INT_CLAMP ELSE CastInt(s64))
        amount == I64(CastInt(I64Mul(I64(price), quantity)))
        c64 == IF direction = BUY
               THEN I64Sub(I64(account.cents), amount)
               ELSE I64Add(I64(account.cents), amount)
        cents == IF direction = BUY
                 THEN (IF I64Less(c64, I64(0 - INT_CLAMP)) THEN 0 - INT_CLAMP ELSE CastInt(c64))
                 ELSE (IF I64Less(I64(INT_CLAMP), c64) THEN INT_CLAMP ELSE CastInt(c64))
    IN  [account EXCEPT !.shares = shares,
                        !.cents = cents,
                        !.posmin = IF shares < @ THEN shares ELSE @,
                        !.posmax = IF shares > @ THEN shares ELSE @]

update_account(account, quantity, price, direction) ==
    LET s64 == IF direction = BUY
               THEN I64Add(I64(account.shares), I64(quantity))
               ELSE I64Sub(I64(account.shares), I64(quantity))
        shares == IF direction = BUY
                  THEN (IF I64Less(I64(INT_CLAMP), s64) THEN INT_CLAMP ELSE CastInt(s64))
                  ELSE (IF I64Less(s64, I64(0 - INT_CLAMP)) THEN 0 - INT_CLAMP ELSE CastInt(s64))
        amount == I64Mul(I64(price), quantity)
        c64 == IF direction = BUY
               THEN I64Sub(I64(account.cents), amount)
               ELSE I64Add(I64(account.cents), amount)
        cents == IF direction = BUY
                 THEN (IF I64Less(c64, I64(0 - INT_CLAMP)) THEN 0 - INT_CLAMP ELSE CastInt(c64))
                 ELSE (IF I64Less(I64(INT_CLAMP), c64) THEN INT_CLAMP ELSE CastInt(c64))
    IN  [account EXCEPT !.shares = shares,
                        !.cents = cents,
                        !.posmin = IF shares < @ THEN shares ELSE @,
                        !.posmax = IF shares > @ THEN shares ELSE @]

\* a variant of cross_accounts that takes the standing order for the seller
\* when it buys and for the buyer when it sells: C12 tells it from
\* cross_accounts
cross_accounts_swapped(accounts, sacc, iacc, sdirection, quantity, price) ==
    IF accounts[sacc].name # accounts[iacc].name
    THEN IF sdirection = BUY
         THEN [accounts EXCEPT ![sacc] = update_account(@, quantity, price, SELL),
                               ![iacc] = update_account(@, quantity, price, BUY)]
         ELSE [accounts EXCEPT ![sacc] = update_account(@, quantity, price, BUY),
                               ![iacc] = update_account(@, quantity, price, SELL)]
    ELSE accounts

\* a variant of cross_accounts that does not compare the names: C11 tells it
\* from cross_accounts
cross_accounts_any_name(accounts, sacc, iacc, sdirection, quantity, price) ==
    IF sdirection = BUY
    THEN [accounts EXCEPT ![sacc] = update_account(@, quantity, price, BUY),
                          ![iacc] = update_account(@, quantity, price, SELL)]
    ELSE [accounts EXCEPT ![sacc] = update_account(@, quantity, price, SELL),
                          ![iacc] = update_account(@, quantity, price, BUY)]

\* a variant of cross_accounts that books a sale to the incoming account too
\* when the standing order sells: C33 tells it from cross_accounts
cross_accounts_both_sell(accounts, sacc, iacc, sdirection, quantity, price) ==
    IF accounts[sacc].name # accounts[iacc].name
    THEN IF sdirection = BUY
         THEN [accounts EXCEPT ![sacc] = update_account(@, quantity, price, BUY),
                               ![iacc] = update_account(@, quantity, price, SELL)]
         ELSE [accounts EXCEPT ![sacc] = update_account(@, quantity, price, SELL),
                               ![iacc] = update_account(@, quantity, price, SELL)]
    ELSE accounts

\* cross(): "Fix the positions of the 2 accounts..."
cross_accounts(accounts, sacc, iacc, sdirection, quantity, price) ==
    IF accounts[sacc].name # accounts[iacc].name
    THEN IF sdirection = BUY
         THEN [accounts EXCEPT ![sacc] = update_account(@, quantity, price, BUY),
                               ![iacc] = update_account(@, quantity, price, SELL)]
         ELSE [accounts EXCEPT ![sacc] = update_account(@, quantity, price, SELL),
                               ![iacc] = update_account(@, quantity, price, BUY)]
    ELSE accounts

\* account_lookup_or_create(), for account_int >= 0
account_lookup_or_create(accounts, arraylen, account_name, account_int) ==
    [arraylen |-> IF account_int >= arraylen
                  THEN ((account_int \div ACCOUNT_CHUNK) + 1) * ACCOUNT_CHUNK
                  ELSE arraylen,
     accounts |-> IF account_int \in DOMAIN accounts
                  THEN accounts
                  ELSE [n \in DOMAIN accounts \cup {account_int} |->
                           IF n = account_int THEN init_account(account_name)
                                              ELSE accounts[n]]]

add_order_to_account(accounts, order_id, account_int) ==
    [accounts EXCEPT ![account_int].orders = Append(@, order_id)]

----------------------------------------------------------------------------
(* Quote *)

RECURSIVE SumQty(_, _)
SumQty(nodes, orders) ==
    IF nodes = <<>> THEN 0
    ELSE orders[Head(nodes) + 1].qty + SumQty(Tail(nodes), orders)

\* get_size_from_level(level), level being the head of chain (NULL if empty)
get_size_from_level(chain, orders) ==
    IF chain = <<>> THEN 0 ELSE SumQty(Head(chain).nodes, orders)

RECURSIVE get_depth(_, _)
get_depth(chain, orders) ==
    IF chain = <<>> THEN 0
    ELSE SumQty(Head(chain).nodes, orders) + get_depth(Tail(chain), orders)

\* a variant of remake_most_of_quote that stamps lastTrade as well:
\* C24 tells it from remake_most_of_quote
remake_most_of_quote_with_last(quote, bids, asks, orders, clk, now) ==
    LET t == new_timestamp(clk, now)
    IN  [quote |-> [quote EXCEPT
                      !.bidSize = get_size_from_level(bids, orders),
                      !.bidDepth = get_depth(bids, orders),
                      !.askSize = get_size_from_level(asks, orders),
                      !.askDepth = get_depth(asks, orders),
                      !.bid = IF bids # <<>> THEN Head(bids).price ELSE -1,
                      !.ask = IF asks # <<>> THEN Head(asks).price ELSE -1,
                      !.quoteTime = t.ts,
                      !.lastTrade = t.ts],
         clk |-> t.clk]

remake_most_of_quote(quote, bids, asks, orders, clk, now) ==
    LET t == new_timestamp(clk, now)
    IN  [quote |-> [quote EXCEPT
                      !.bidSize = get_size_from_level(bids, orders),
                      !.bidDepth = get_depth(bids, orders),
                      !.askSize = get_size_from_level(asks, orders),
                      !.askDepth = get_depth(asks, orders),
                      !.bid = IF bids # <<>> THEN Head(bids).price ELSE -1,
                      !.ask = IF asks # <<>> THEN Head(asks).price ELSE -1,
                      !.quoteTime = t.ts],
         clk |-> t.clk]

set_quote_lastinfo(quote, last, lastSize, clk, now) ==
    LET t == new_timestamp(clk, now)
    IN  [quote |-> [quote EXCEPT !.last = last, !.lastSize = lastSize,
                                 !.lastTrade = t.ts],
         clk |-> t.clk]

----------------------------------------------------------------------------
(* Matching.  m is the part of the program state a cross changes:          *)
(* [orders, accounts, quote, clk, events].                                 *)

init_order(account_int, qty, price, direction, orderType, order_id, ts) ==
    [direction |-> direction, originalQty |-> qty, qty |-> qty, price |-> price,
     orderType |-> orderType, id |-> order_id, account |-> account_int,
     ts |-> ts, fills |-> <<>>, totalFilled |-> 0, open |-> TRUE]

\* a variant of cross_quantity that takes the standing order's qty, whatever
\* the incoming order asks for: C5 tells it from cross_quantity
cross_quantity_standing(standing_order, incoming_order) == standing_order.qty

\* cross(): the quantity of the fill
cross_quantity(standing_order, incoming_order) ==
    IF standing_order.qty < incoming_order.qty THEN standing_order.qty
                                               ELSE incoming_order.qty

\* a variant of cross_order that does not append the fill: C13 tells it from
\* cross_order
cross_order_no_fill(order, quantity, fill) ==
    [order EXCEPT !.qty = @ - quantity,
                  !.totalFilled = @ + quantity,
                  !.open = IF order.qty - quantity = 0 THEN FALSE ELSE @]

\* a variant of cross_order that leaves totalFilled alone: C3 tells it from
\* cross_order
cross_order_unfilled(order, quantity, fill) ==
    [order EXCEPT !.qty = @ - quantity,
                  !.fills = Append(@, fill),
                  !.open = IF order.qty - quantity = 0 THEN FALSE ELSE @]

\* cross(): what it does to one of its two orders
cross_order(order, quantity, fill) ==
    [order EXCEPT !.qty = @ - quantity,
                  !.totalFilled = @ + quantity,
                  !.fills = Append(@, fill),
                  !.open = IF order.qty - quantity = 0 THEN FALSE ELSE @]

cross(m, standing, incoming, now) ==
    LET t == new_timestamp(m.clk, now)
        s == m.orders[standing + 1]
        i == m.orders[incoming + 1]
        quantity == cross_quantity(s, i)
        price == s.price
        fill == [price |-> price, qty |-> quantity, ts |-> t.ts]
        orders2 == [m.orders EXCEPT ![standing + 1] = cross_order(s, quantity, fill),
                                    ![incoming + 1] = cross_order(i, quantity, fill)]
        accounts2 == cross_accounts(m.accounts, s.account, i.account,
                                    s.direction, quantity, price)
        q == set_quote_lastinfo(m.quote, price, quantity, t.clk, now)
    IN  [orders |-> orders2,
         accounts |-> accounts2,
         quote |-> q.quote,
         clk |-> q.clk,
         events |-> m.events \o create_execution_messages(orders2, accounts2,
                                    standing, incoming, quantity, price, t.ts)]

\* a variant of run_order_stops that stops at the limit price too, so that
\* orders of one price do not cross: C2 tells it from run_order_stops
run_order_stops_at_limit(order, level) ==
    IF order.direction = SELL
    THEN level.price <= order.price /\ order.orderType # MARKET
    ELSE level.price >= order.price /\ order.orderType # MARKET

\* a variant of run_order_stops that never stops, the limit price being
\* ignored: C6 tells it from run_order_stops
run_order_stops_never(order, level) == FALSE

\* a variant of run_order_stops that holds a MARKET order to the price of its
\* command: C26 tells it from run_order_stops
run_order_stops_market_too(order, level) ==
    IF order.direction = SELL
    THEN level.price < order.price
    ELSE level.price > order.price

\* the price test at the top of run_order()'s loop over the levels
run_order_stops(order, level) ==
    IF order.direction = SELL
    THEN level.price < order.price /\ order.orderType # MARKET
    ELSE level.price > order.price /\ order.orderType # MARKET

\* run_order() from node ni of level li of the chain on
RECURSIVE run_order_from(_, _, _, _, _, _)
run_order_from(m, order_id, chain, li, ni, now) ==
    IF li > Len(chain) THEN m
    ELSE IF ni = 1 /\ run_order_stops(m.orders[order_id + 1], chain[li]) THEN m
    ELSE IF ni > Len(chain[li].nodes)
         THEN run_order_from(m, order_id, chain, li + 1, 1, now)
    ELSE LET m2 == cross(m, chain[li].nodes[ni], order_id, now)
         IN  IF ~m2.orders[order_id + 1].open THEN m2
             ELSE run_order_from(m2, order_id, chain, li, ni + 1, now)

run_order(m, order_id, bids, asks, now) ==
    IF m.orders[order_id + 1].direction = SELL
    THEN run_order_from(m, order_id, bids, 1, 1, now)
    ELSE run_order_from(m, order_id, asks, 1, 1, now)

\* a variant of cleanup_closed_bids_or_asks that leaves the chain as it is:
\* C8 tells it from cleanup_closed_bids_or_asks
cleanup_nothing(chain, orders) == [chain |-> chain, ok |-> TRUE]

\* a variant of cleanup_closed_bids_or_asks that goes no further than the end
\* of the first level, the next level becoming the head as it is: C31 tells it
\* from cleanup_closed_bids_or_asks
RECURSIVE cleanup_closed_first_level(_, _)
cleanup_closed_first_level(chain, orders) ==
    IF chain = <<>> THEN [chain |-> <<>>, ok |-> TRUE]
    ELSE IF Head(chain).nodes = <<>> THEN [chain |-> chain, ok |-> FALSE]
    ELSE IF orders[Head(Head(chain).nodes) + 1].open THEN [chain |-> chain, ok |-> TRUE]
    ELSE IF Len(Head(chain).nodes) > 1
         THEN cleanup_closed_first_level(
                  <<[Head(chain) EXCEPT !.nodes = Tail(@)]>> \o Tail(chain), orders)
    ELSE [chain |-> Tail(chain), ok |-> TRUE]

\* cleanup_closed_bids_or_asks(): the chain afterwards, and whether its
\* assert(current_node != NULL) held
RECURSIVE cleanup_closed_bids_or_asks(_, _)
cleanup_closed_bids_or_asks(chain, orders) ==
    IF chain = <<>> THEN [chain |-> <<>>, ok |-> TRUE]
    ELSE IF Head(chain).nodes = <<>> THEN [chain |-> chain, ok |-> FALSE]
    ELSE IF orders[Head(Head(chain).nodes) + 1].open THEN [chain |-> chain, ok |-> TRUE]
    ELSE IF Len(Head(chain).nodes) > 1
         THEN cleanup_closed_bids_or_asks(
                  <<[Head(chain) EXCEPT !.nodes = Tail(@)]>> \o Tail(chain), orders)
    ELSE cleanup_closed_bids_or_asks(Tail(chain), orders)

init_level(price, ordernode) == [price |-> price, nodes |-> <<ordernode>>]

\* a variant of append_ordernode that puts the node at the head of the level's
\* list: C1 tells it from append_ordernode
prepend_ordernode(level, ordernode) == [level EXCEPT !.nodes = <<ordernode>> \o @]

\* the node is put at the tail of the level's list
append_ordernode(level, ordernode) == [level EXCEPT !.nodes = Append(@, ordernode)]

\* insert_ask(), its while (1) loop being at level k
RECURSIVE insert_ask_from(_, _, _, _)
insert_ask_from(chain, k, order_id, price) ==
    IF price < chain[k].price
    THEN SubSeq(chain, 1, k - 1) \o <<init_level(price, order_id)>>
                                 \o SubSeq(chain, k, Len(chain))
    ELSE IF price = chain[k].price
         THEN [chain EXCEPT ![k] = append_ordernode(@, order_id)]
    ELSE IF k < Len(chain)
         THEN insert_ask_from(chain, k + 1, order_id, price)
    ELSE Append(chain, init_level(price, order_id))

insert_ask(chain, order_id, price) ==
    IF chain = <<>> THEN <<init_level(price, order_id)>>
    ELSE insert_ask_from(chain, 1, order_id, price)

\* a variant of insert_bid_from that makes a new level for a price the chain
\* has already: C9 tells it from insert_bid_from
RECURSIVE insert_bid_from_new_level(_, _, _, _)
insert_bid_from_new_level(chain, k, order_id, price) ==
    IF price >= chain[k].price
    THEN SubSeq(chain, 1, k - 1) \o <<init_level(price, order_id)>>
                                 \o SubSeq(chain, k, Len(chain))
    ELSE IF k < Len(chain)
         THEN insert_bid_from_new_level(chain, k + 1, order_id, price)
    ELSE Append(chain, init_level(price, order_id))

\* insert_bid(), its while (1) loop being at level k
RECURSIVE insert_bid_from(_, _, _, _)
insert_bid_from(chain, k, order_id, price) ==
    IF price > chain[k].price
    THEN SubSeq(chain, 1, k - 1) \o <<init_level(price, order_id)>>
                                 \o SubSeq(chain, k, Len(chain))
    ELSE IF price = chain[k].price
         THEN [chain EXCEPT ![k] = append_ordernode(@, order_id)]
    ELSE IF k < Len(chain)
         THEN insert_bid_from(chain, k + 1, order_id, price)
    ELSE Append(chain, init_level(price, order_id))

insert_bid(chain, order_id, price) ==
    IF chain = <<>> THEN <<init_level(price, order_id)>>
    ELSE insert_bid_from(chain, 1, order_id, price)

\* the inner loop of fok_can_buy()/fok_can_sell() over one level: the qty left,
\* stopping at the first node that brings it to 0 or below
RECURSIVE fok_level(_, _, _)
fok_level(qty, nodes, orders) ==
    IF nodes = <<>> THEN qty
    ELSE LET q2 == qty - orders[Head(nodes) + 1].qty
         IN  IF q2 <= 0 THEN q2 ELSE fok_level(q2, Tail(nodes), orders)

\* a variant of fok_can_buy that wants more than the qty asked for to be on
\* offer: C4 tells it from fok_can_buy
RECURSIVE fok_can_buy_more(_, _, _, _)
fok_can_buy_more(qty, price, asks, orders) ==
    IF asks = <<>> \/ ~(Head(asks).price <= price) THEN FALSE
    ELSE LET q2 == fok_level(qty, Head(asks).nodes, orders)
         IN  IF q2 < 0 THEN TRUE ELSE fok_can_buy_more(q2, price, Tail(asks), orders)

RECURSIVE fok_can_buy(_, _, _, _)
fok_can_buy(qty, price, asks, orders) ==
    IF asks = <<>> \/ ~(Head(asks).price <= price) THEN FALSE
    ELSE LET q2 == fok_level(qty, Head(asks).nodes, orders)
         IN  IF q2 <= 0 THEN TRUE ELSE fok_can_buy(q2, price, Tail(asks), orders)

RECURSIVE fok_can_sell(_, _, _, _)
fok_can_sell(qty, price, bids, orders) ==
    IF bids = <<>> \/ ~(Head(bids).price >= price) THEN FALSE
    ELSE LET q2 == fok_level(qty, Head(bids).nodes, orders)
         IN  IF q2 <= 0 THEN TRUE ELSE fok_can_sell(q2, price, Tail(bids), orders)

----------------------------------------------------------------------------
(* ORDER *)

\* a NULL slot of AllOrders
NULL == [null |-> TRUE]

\* a variant of next_id that passes over an id: C19 tells it from next_id
next_id_skip(static_id) == IF static_id = MAXORDERS THEN MAXORDERS ELSE static_id + 1

\* next_id(no_iterate_flag): the id it returns
next_id(static_id) == IF static_id = MAXORDERS THEN MAXORDERS ELSE static_id

\* AllOrders[id] = ret in init_order(), slots in between being NULL
store_order(orders, order) ==
    [k \in 1..(IF order.id + 1 > Len(orders) THEN order.id + 1 ELSE Len(orders)) |->
        IF k = order.id + 1 THEN order
        ELSE IF k <= Len(orders) THEN orders[k] ELSE NULL]

\* a variant of execute_order_error that looks at the values before it looks
\* at the account: C18 tells it from execute_order_error
execute_order_error_values_first(static_id, account_int, qty, price, direction) ==
    IF next_id(static_id) >= MAXORDERS THEN TOO_MANY_ORDERS
    ELSE IF price < 0 \/ qty < 1 \/ (direction # SELL /\ direction # BUY) THEN SILLY_VALUE
    ELSE IF account_int >= MAXACCOUNTS THEN TOO_HIGH_ACCOUNT
    ELSE 0

\* a variant of execute_order_error that lets a qty of 0 pass: C17 tells it
\* from execute_order_error
execute_order_error_qty(static_id, account_int, qty, price, direction) ==
    IF next_id(static_id) >= MAXORDERS THEN TOO_MANY_ORDERS
    ELSE IF account_int >= MAXACCOUNTS THEN TOO_HIGH_ACCOUNT
    ELSE IF price < 0 \/ qty < 0 \/ (direction # SELL /\ direction # BUY) THEN SILLY_VALUE
    ELSE 0

\* the checks at the top of execute_order(): the error, or 0
execute_order_error(static_id, account_int, qty, price, direction) ==
    IF next_id(static_id) >= MAXORDERS THEN TOO_MANY_ORDERS
    ELSE IF account_int >= MAXACCOUNTS THEN TOO_HIGH_ACCOUNT
    ELSE IF price < 0 \/ qty < 1 \/ (direction # SELL /\ direction # BUY) THEN SILLY_VALUE
    ELSE 0

\* a variant of close_order that leaves qty alone: C7 tells it from
\* close_order
close_order_keep_qty(order) == [order EXCEPT !.open = FALSE]

\* execute_order(): an order that is open and is no limit order is closed
close_order(order) == [order EXCEPT !.open = FALSE, !.qty = 0]

\* execute_order(): the new order stored and put on its account's list
execute_order_init(account_int, qty, price, direction, orderType, oid, la, t0) ==
    [orders |-> store_order(AllOrders,
                    init_order(account_int, qty, price, direction, orderType, oid, t0.ts)),
     accounts |-> add_order_to_account(la.accounts, oid, account_int),
     quote |-> Quote, clk |-> t0.clk, events |-> <<>>]

\* execute_order(): the matching; an FOK order is run only if fok_can_buy() or
\* fok_can_sell() says so
execute_order_run(m0, oid, qty, price, direction, orderType) ==
    LET runs == IF orderType # FOK THEN TRUE
                ELSE IF direction = BUY
                     THEN fok_can_buy(qty, price, FirstAskLevel, m0.orders)
                     ELSE fok_can_sell(qty, price, FirstBidLevel, m0.orders)
    IN  IF runs THEN run_order(m0, oid, FirstBidLevel, FirstAskLevel, wall) ELSE m0

\* a variant of execute_order_finish that makes the quote anew and emits a
\* ticker whatever the order is and has done: C20 tells it from
\* execute_order_finish
execute_order_finish_ticker(m1, oid, arraylen, direction, orderType) ==
    LET cl == IF direction = SELL
              THEN cleanup_closed_bids_or_asks(FirstBidLevel, m1.orders)
              ELSE cleanup_closed_bids_or_asks(FirstAskLevel, m1.orders)
        bids1 == IF direction = SELL THEN cl.chain ELSE FirstBidLevel
        asks1 == IF direction = SELL THEN FirstAskLevel ELSE cl.chain
        o1 == m1.orders[oid + 1]
        o2 == IF orderType = MARKET THEN [o1 EXCEPT !.price = 0] ELSE o1
        rests == o2.open /\ orderType = LIMIT
        o3 == IF o2.open /\ orderType # LIMIT THEN close_order(o2) ELSE o2
        bids2 == IF rests /\ direction # SELL THEN insert_bid(bids1, oid, o2.price) ELSE bids1
        asks2 == IF rests /\ direction = SELL THEN insert_ask(asks1, oid, o2.price) ELSE asks1
        orders3 == [m1.orders EXCEPT ![oid + 1] = o3]
        rq == remake_most_of_quote(m1.quote, bids2, asks2, orders3, m1.clk, wall)
    IN  [ok |-> cl.ok,
         order_id |-> oid,
         orders |-> orders3,
         accounts |-> m1.accounts,
         arraylen |-> arraylen,
         bids |-> bids2,
         asks |-> asks2,
         quote |-> rq.quote,
         clk |-> rq.clk,
         events |-> Append(m1.events, create_ticker_message(rq.quote))]

\* a variant of execute_order_finish that takes the book as changed only when
\* the order was filled, a LIMIT order that rests without a fill not counting:
\* C21 tells it from execute_order_finish
execute_order_finish_fills_only(m1, oid, arraylen, direction, orderType) ==
    LET cl == IF direction = SELL
              THEN cleanup_closed_bids_or_asks(FirstBidLevel, m1.orders)
              ELSE cleanup_closed_bids_or_asks(FirstAskLevel, m1.orders)
        bids1 == IF direction = SELL THEN cl.chain ELSE FirstBidLevel
        asks1 == IF direction = SELL THEN FirstAskLevel ELSE cl.chain
        o1 == m1.orders[oid + 1]
        o2 == IF orderType = MARKET THEN [o1 EXCEPT !.price = 0] ELSE o1
        rests == o2.open /\ orderType = LIMIT
        o3 == IF o2.open /\ orderType # LIMIT THEN close_order(o2) ELSE o2
        bids2 == IF rests /\ direction # SELL THEN insert_bid(bids1, oid, o2.price) ELSE bids1
        asks2 == IF rests /\ direction = SELL THEN insert_ask(asks1, oid, o2.price) ELSE asks1
        orders3 == [m1.orders EXCEPT ![oid + 1] = o3]
        something == o3.totalFilled # 0
        rq == remake_most_of_quote(m1.quote, bids2, asks2, orders3, m1.clk, wall)
    IN  [ok |-> cl.ok,
         order_id |-> oid,
         orders |-> orders3,
         accounts |-> m1.accounts,
         arraylen |-> arraylen,
         bids |-> bids2,
         asks |-> asks2,
         quote |-> IF something THEN rq.quote ELSE m1.quote,
         clk |-> IF something THEN rq.clk ELSE m1.clk,
         events |-> IF something
                    THEN Append(m1.events, create_ticker_message(rq.quote))
                    ELSE m1.events]

\* execute_order() after the matching: the cleanup of the side run against, the
\* order put on the book or closed, the quote and the ticker message
execute_order_finish(m1, oid, arraylen, direction, orderType) ==
    LET cl == IF direction = SELL
              THEN cleanup_closed_bids_or_asks(FirstBidLevel, m1.orders)
              ELSE cleanup_closed_bids_or_asks(FirstAskLevel, m1.orders)
        bids1 == IF direction = SELL THEN cl.chain ELSE FirstBidLevel
        asks1 == IF direction = SELL THEN FirstAskLevel ELSE cl.chain
        o1 == m1.orders[oid + 1]
        o2 == IF orderType = MARKET THEN [o1 EXCEPT !.price = 0] ELSE o1
        rests == o2.open /\ orderType = LIMIT
        o3 == IF o2.open /\ orderType # LIMIT THEN close_order(o2) ELSE o2
        bids2 == IF rests /\ direction # SELL THEN insert_bid(bids1, oid, o2.price) ELSE bids1
        asks2 == IF rests /\ direction = SELL THEN insert_ask(asks1, oid, o2.price) ELSE asks1
        orders3 == [m1.orders EXCEPT ![oid + 1] = o3]
        something == o3.totalFilled # 0 \/ orderType = LIMIT
        rq == remake_most_of_quote(m1.quote, bids2, asks2, orders3, m1.clk, wall)
    IN  [ok |-> cl.ok,
         order_id |-> oid,
         orders |-> orders3,
         accounts |-> m1.accounts,
         arraylen |-> arraylen,
         bids |-> bids2,
         asks |-> asks2,
         quote |-> IF something THEN rq.quote ELSE m1.quote,
         clk |-> IF something THEN rq.clk ELSE m1.clk,
         events |-> IF something
                    THEN Append(m1.events, create_ticker_message(rq.quote))
                    ELSE m1.events]

\* execute_order() once its checks have passed, for account_int >= 0:
\* the program state afterwards
execute_order(account_name, account_int, qty, price, direction, orderType) ==
    execute_order_finish(
        execute_order_run(
            execute_order_init(account_int, qty, price, direction, orderType, next_id(id),
                account_lookup_or_create(AllAccounts, CurrentAccountArrayLen,
                                         account_name, account_int),
                new_timestamp(clock, wall)),
            next_id(id), qty, price, direction, orderType),
        next_id(id),
        account_lookup_or_create(AllAccounts, CurrentAccountArrayLen,
                                 account_name, account_int).arraylen,
        direction, orderType)

\* the ORDER branch of main() when execute_order() has returned r
ORDER_executed(r) ==
    IF ~r.ok
    THEN /\ fault' = "assert"
         /\ UNCHANGED <<AllOrders, HighestKnownOrder, id, AllAccounts,
                        CurrentAccountArrayLen, FirstBidLevel,
                        FirstAskLevel, Quote, clock, wall, events, reply>>
    ELSE /\ AllOrders' = r.orders
         /\ HighestKnownOrder' = r.order_id
         /\ id' = id + 1
         /\ AllAccounts' = r.accounts
         /\ CurrentAccountArrayLen' = r.arraylen
         /\ FirstBidLevel' = r.bids
         /\ FirstAskLevel' = r.asks
         /\ Quote' = r.quote
         /\ clock' = r.clk
         /\ events' = r.events
         /\ reply' = print_order(r.orders[r.order_id + 1], r.accounts)
         /\ UNCHANGED <<wall, fault>>

\* the ORDER branch of main()
ORDER(account_name, account_int, qty, price, direction, orderType) ==
    /\ fault = "none"
    /\ id < MaxOrders
    /\ UNCHANGED call
    /\ LET error == execute_order_error(id, account_int, qty, price, direction)
       IN  IF error # 0
           THEN /\ reply' = [ok |-> FALSE, error |-> "Backend error", code |-> error,
                             account |-> account_name, account_int |-> account_int,
                             qty |-> qty, price |-> price, direction |-> direction,
                             orderType |-> orderType]
                /\ events' = <<>>
                /\ UNCHANGED <<AllOrders, HighestKnownOrder, id, AllAccounts,
                               CurrentAccountArrayLen, FirstBidLevel, FirstAskLevel,
                               Quote, clock, wall, fault>>
           ELSE IF account_int < 0
           THEN \* AllAccounts[account_int] is read outside the array: what the
                \* program does from here on is undefined, and the model
                \* records the access and goes no further
                /\ fault' = "out of bounds"
                /\ UNCHANGED <<AllOrders, HighestKnownOrder, id, AllAccounts,
                               CurrentAccountArrayLen, FirstBidLevel, FirstAskLevel,
                               Quote, clock, wall, events, reply>>
           ELSE ORDER_executed(execute_order(account_name, account_int, qty, price,
                                             direction, orderType))

----------------------------------------------------------------------------
(* CANCEL *)

\* find_level(): the position of the level in its chain, 0 for NULL
RECURSIVE find_level_from(_, _, _, _)
find_level_from(chain, k, price, dir) ==
    IF k > Len(chain) THEN 0
    ELSE IF (dir = BUY /\ chain[k].price > price) \/ (dir # BUY /\ chain[k].price < price)
         THEN find_level_from(chain, k + 1, price, dir)
    ELSE IF chain[k].price = price THEN k
    ELSE 0

\* a variant of find_level that looks at the first level of the side and no
\* further: C32 tells it from find_level
find_level_head(price, dir, bids, asks) ==
    IF dir = BUY
    THEN (IF bids # <<>> /\ bids[1].price = price THEN 1 ELSE 0)
    ELSE (IF asks # <<>> /\ asks[1].price = price THEN 1 ELSE 0)

find_level(price, dir, bids, asks) ==
    IF dir = BUY THEN find_level_from(bids, 1, price, dir)
                 ELSE find_level_from(asks, 1, price, dir)

\* find_ordernode(): the position of the node in the level's list, 0 for NULL
RECURSIVE find_ordernode_from(_, _, _)
find_ordernode_from(nodes, k, order_id) ==
    IF k > Len(nodes) THEN 0
    ELSE IF nodes[k] = order_id THEN k
    ELSE find_ordernode_from(nodes, k + 1, order_id)

find_ordernode(chain, level, order_id) ==
    IF level # 0 THEN find_ordernode_from(chain[level].nodes, 1, order_id) ELSE 0

\* a variant of cleanup_after_cancel that takes the whole level off the chain:
\* C15 tells it from cleanup_after_cancel
cleanup_after_cancel_level(chain, level, ordernode) ==
    SubSeq(chain, 1, level - 1) \o SubSeq(chain, level + 1, Len(chain))

\* cleanup_after_cancel(): the chain without node `ordernode` of level `level`,
\* and without the level if that was its only node
cleanup_after_cancel(chain, level, ordernode) ==
    LET nodes == chain[level].nodes
        rest == SubSeq(nodes, 1, ordernode - 1) \o SubSeq(nodes, ordernode + 1, Len(nodes))
    IN  IF rest = <<>>
        THEN SubSeq(chain, 1, level - 1) \o SubSeq(chain, level + 1, Len(chain))
        ELSE [chain EXCEPT ![level].nodes = rest]

\* a variant of cancel_order_by_id that makes the quote anew and emits a ticker
\* for an order it does not find in the book too: C16 tells it from
\* cancel_order_by_id
cancel_order_by_id_ticker(order_id) ==
    LET order == AllOrders[order_id + 1]
        dir == order.direction
        chain == IF dir = BUY THEN FirstBidLevel ELSE FirstAskLevel
        level == find_level(order.price, dir, FirstBidLevel, FirstAskLevel)
        ordernode == find_ordernode(chain, level, order_id)
        found == order.orderType = LIMIT /\ ordernode # 0
        orders2 == [AllOrders EXCEPT ![order_id + 1].open = FALSE, ![order_id + 1].qty = 0]
        chain2 == cleanup_after_cancel(chain, level, ordernode)
        bids2 == IF dir = BUY THEN chain2 ELSE FirstBidLevel
        asks2 == IF dir = BUY THEN FirstAskLevel ELSE chain2
        rq == remake_most_of_quote(Quote, bids2, asks2, orders2, clock, wall)
        rq0 == remake_most_of_quote(Quote, FirstBidLevel, FirstAskLevel, AllOrders,
                                    clock, wall)
    IN  IF found
        THEN [orders |-> orders2, bids |-> bids2, asks |-> asks2, quote |-> rq.quote,
              clk |-> rq.clk, events |-> <<create_ticker_message(rq.quote)>>]
        ELSE [orders |-> AllOrders, bids |-> FirstBidLevel, asks |-> FirstAskLevel,
              quote |-> rq0.quote, clk |-> rq0.clk,
              events |-> <<create_ticker_message(rq0.quote)>>]

\* a variant of cancel_order_by_id that takes the order off the book and
\* leaves the quote as it was: C23 tells it from cancel_order_by_id
cancel_order_by_id_stale(order_id) ==
    LET order == AllOrders[order_id + 1]
        dir == order.direction
        chain == IF dir = BUY THEN FirstBidLevel ELSE FirstAskLevel
        level == find_level(order.price, dir, FirstBidLevel, FirstAskLevel)
        ordernode == find_ordernode(chain, level, order_id)
        found == order.orderType = LIMIT /\ ordernode # 0
        orders2 == [AllOrders EXCEPT ![order_id + 1].open = FALSE, ![order_id + 1].qty = 0]
        chain2 == cleanup_after_cancel(chain, level, ordernode)
        bids2 == IF dir = BUY THEN chain2 ELSE FirstBidLevel
        asks2 == IF dir = BUY THEN FirstAskLevel ELSE chain2
    IN  IF found
        THEN [orders |-> orders2, bids |-> bids2, asks |-> asks2, quote |-> Quote,
              clk |-> clock, events |-> <<create_ticker_message(Quote)>>]
        ELSE [orders |-> AllOrders, bids |-> FirstBidLevel, asks |-> FirstAskLevel,
              quote |-> Quote, clk |-> clock, events |-> <<>>]

\* cancel_order_by_id(): the program state afterwards
cancel_order_by_id(order_id) ==
    LET order == AllOrders[order_id + 1]
        dir == order.direction
        chain == IF dir = BUY THEN FirstBidLevel ELSE FirstAskLevel
        level == find_level(order.price, dir, FirstBidLevel, FirstAskLevel)
        ordernode == find_ordernode(chain, level, order_id)
        found == order.orderType = LIMIT /\ ordernode # 0
        orders2 == [AllOrders EXCEPT ![order_id + 1].open = FALSE, ![order_id + 1].qty = 0]
        chain2 == cleanup_after_cancel(chain, level, ordernode)
        bids2 == IF dir = BUY THEN chain2 ELSE FirstBidLevel
        asks2 == IF dir = BUY THEN FirstAskLevel ELSE chain2
        rq == remake_most_of_quote(Quote, bids2, asks2, orders2, clock, wall)
    IN  IF found
        THEN [orders |-> orders2, bids |-> bids2, asks |-> asks2, quote |-> rq.quote,
              clk |-> rq.clk, events |-> <<create_ticker_message(rq.quote)>>]
        ELSE [orders |-> AllOrders, bids |-> FirstBidLevel, asks |-> FirstAskLevel,
              quote |-> Quote, clk |-> clock, events |-> <<>>]

NoSuchID == [ok |-> FALSE, error |-> "No such ID"]

\* the CANCEL branch of main()
CANCEL(order_id) ==
    /\ fault = "none"
    /\ IF order_id < 0 \/ order_id > HighestKnownOrder \/ AllOrders[order_id + 1] = NULL
       THEN /\ reply' = NoSuchID
            /\ events' = <<>>
            /\ UNCHANGED <<AllOrders, FirstBidLevel, FirstAskLevel, Quote, clock>>
       ELSE LET r == cancel_order_by_id(order_id)
            IN  /\ AllOrders' = r.orders
                /\ FirstBidLevel' = r.bids
                /\ FirstAskLevel' = r.asks
                /\ Quote' = r.quote
                /\ clock' = r.clk
                /\ events' = r.events
                /\ reply' = print_order(r.orders[order_id + 1], AllAccounts)
    /\ UNCHANGED <<HighestKnownOrder, id, AllAccounts, CurrentAccountArrayLen, wall,
                   fault, call>>

----------------------------------------------------------------------------
(* The program *)

\* the state when main() enters its loop, but for the accounts:
\* StartTime = new_timestamp() has been called once and copied to Quote.quoteTime
InitBook ==
    /\ AllOrders = <<>>
    /\ HighestKnownOrder = -1
    /\ id = 0
    /\ FirstBidLevel = <<>>
    /\ FirstAskLevel = <<>>
    /\ wall = 0
    /\ clock = [last_time |-> 0, fake_micro |-> 0]
    /\ Quote = [bidSize |-> 0, askSize |-> 0, bidDepth |-> 0, askDepth |-> 0,
                bid |-> -1, ask |-> -1, last |-> -1, lastSize |-> -1,
                lastTrade |-> NoTimestamp, quoteTime |-> <<0, 0>>]
    /\ events = <<>>
    /\ reply = <<>>
    /\ fault = "none"
    /\ call = <<>>

Init ==
    /\ InitBook
    /\ AllAccounts = <<>>
    /\ CurrentAccountArrayLen = 0

\* the ids of the orders that are open
OpenIds == {k \in 0..HighestKnownOrder : AllOrders[k + 1].open}

\* a client sends an ORDER
OrderCommand ==
    \E account_name \in Names, account_int \in AccountInts, qty \in Qtys,
       price \in Prices, direction \in Directions, orderType \in OrderTypes :
        ORDER(account_name, account_int, qty, price, direction, orderType)

\* a client cancels an order of its own that is open
CancelCommand == \E order_id \in OpenIds : CANCEL(order_id)

Next == OrderCommand \/ CancelCommand

Spec == Init /\ [][Next]_vars

----------------------------------------------------------------------------
(* Vocabulary of the properties *)

Order(k) == AllOrders[k + 1]

OrderIds == 0..HighestKnownOrder

Opposite(direction) == IF direction = SELL THEN BUY ELSE SELL

\* the ids a chain holds, from the head of the first level on
RECURSIVE ChainIds(_)
ChainIds(chain) ==
    IF chain = <<>> THEN <<>> ELSE Head(chain).nodes \o ChainIds(Tail(chain))

Range(seq) == {seq[k] : k \in 1..Len(seq)}

\* this step is an ORDER command that was accepted; the order has id `id`
Accepted == id' = id + 1

NewOrder == AllOrders'[id + 1]

IsExecution(e) == e.type = "EXECUTION"

IsStandingMessage(e) == e.type = "EXECUTION" /\ e.order.id = e.standingId

IsIncomingMessage(e) == e.type = "EXECUTION" /\ e.order.id = e.incomingId

\* a is ahead of b on the side of `direction`: better price, or same price and
\* placed earlier
Ahead(a, b, direction) ==
    \/ (direction = BUY /\ a.price > b.price)
    \/ (direction = SELL /\ a.price < b.price)
    \/ (a.price = b.price /\ a.id < b.id)

\* the orders of the set S of ids, in priority order
RECURSIVE PriorityOrder(_, _, _)
PriorityOrder(S, orders, direction) ==
    IF S = {} THEN <<>>
    ELSE LET first == CHOOSE a \in S :
                          \A b \in S \ {a} : Ahead(orders[a + 1], orders[b + 1], direction)
         IN  <<first>> \o PriorityOrder(S \ {first}, orders, direction)

\* the open orders of one direction, in priority order
Resting(direction) ==
    PriorityOrder({k \in OrderIds : Order(k).open /\ Order(k).direction = direction},
                  AllOrders, direction)

\* the ids of the standing orders the last command crossed, in the order of the crosses
CrossedIds(evs) ==
    LET msgs == SelectSeq(evs, IsStandingMessage)
    IN  [k \in 1..Len(msgs) |-> msgs[k].standingId]

----------------------------------------------------------------------------
(* C1: price-time priority.  The standing orders an accepted ORDER crosses  *)
(* are a prefix of the open orders of the opposite side in priority order   *)
(* (best price first, at one price the order placed first), and each of     *)
(* them but the last is completely filled.                                  *)

C1_PriceTimePriority ==
    [][Accepted =>
        LET crossed == CrossedIds(events')
            resting == Resting(Opposite(NewOrder.direction))
        IN  /\ Len(crossed) <= Len(resting)
            /\ crossed = SubSeq(resting, 1, Len(crossed))
            /\ \A k \in 1..(Len(crossed) - 1) :
                   /\ AllOrders'[crossed[k] + 1].qty = 0
                   /\ ~AllOrders'[crossed[k] + 1].open]_vars

\* an order has crossed two standing orders of one price, the first completely
\* and the second in part
C1_Witness ==
    /\ Len(events) >= 4
    /\ IsStandingMessage(events[1]) /\ IsStandingMessage(events[3])
    /\ events[1].standingId < events[3].standingId
    /\ events[1].price = events[3].price
    /\ events[1].standingComplete
    /\ ~events[3].standingComplete

----------------------------------------------------------------------------
(* C2: the book is never crossed.  Every bid level's price is below every   *)
(* ask level's price, and the quote's bid is below its ask when it has both.*)

C2_BookNotCrossed ==
    /\ \A b \in Range(FirstBidLevel), a \in Range(FirstAskLevel) : b.price < a.price
    /\ \A b \in print_quote(Quote).bid, a \in print_quote(Quote).ask : b < a

\* both sides of the book hold orders, after an order has been matched
C2_Witness ==
    /\ FirstBidLevel # <<>> /\ FirstAskLevel # <<>>
    /\ print_quote(Quote).bid # {} /\ print_quote(Quote).ask # {}
    /\ \E k \in OrderIds : Order(k).fills # <<>>

----------------------------------------------------------------------------
(* C3: qty + totalFilled = originalQty.  As claimed, for every order in the *)
(* store; as the code has it, for every open order, while a closed order    *)
(* has qty = 0 and totalFilled <= originalQty.                              *)

\* the claim as made
C3_Original ==
    \A k \in OrderIds : Order(k).qty + Order(k).totalFilled = Order(k).originalQty

\* C3 as amended: an order that is open has qty + totalFilled = originalQty and
\* qty > 0; an order that is not has qty = 0 and totalFilled <= originalQty
C3_QtyAccounting ==
    \A k \in OrderIds :
        /\ Order(k).open =>
               /\ Order(k).qty + Order(k).totalFilled = Order(k).originalQty
               /\ Order(k).qty > 0
        /\ ~Order(k).open =>
               /\ Order(k).qty = 0
               /\ Order(k).totalFilled >= 0
               /\ Order(k).totalFilled <= Order(k).originalQty

\* an order rests, and a partly filled order has been closed with qty 0
C3_Witness ==
    /\ \E k \in OrderIds : Order(k).open
    /\ \E k \in OrderIds : /\ ~Order(k).open
                           /\ Order(k).qty = 0
                           /\ Order(k).totalFilled > 0
                           /\ Order(k).totalFilled < Order(k).originalQty

----------------------------------------------------------------------------
(* C4: fill-or-kill is all or nothing.  An accepted FOK order is filled     *)
(* completely if and only if the open orders of the opposite side at prices *)
(* its limit admits held at least its qty when it arrived, and otherwise it *)
(* gets no fill.                                                            *)

\* the open orders in `orders` that an order of `direction` with limit `price` may cross
Admissible(orders, direction, price) ==
    {k \in 0..(Len(orders) - 1) :
        /\ orders[k + 1].open
        /\ orders[k + 1].direction = Opposite(direction)
        /\ IF direction = BUY THEN orders[k + 1].price <= price
                              ELSE orders[k + 1].price >= price}

RECURSIVE QtyOf(_, _)
QtyOf(S, orders) ==
    IF S = {} THEN 0
    ELSE LET k == CHOOSE k \in S : TRUE
         IN  orders[k + 1].qty + QtyOf(S \ {k}, orders)

C4_FillOrKill ==
    [][(Accepted /\ NewOrder.orderType = FOK) =>
        LET available == QtyOf(Admissible(AllOrders, NewOrder.direction, NewOrder.price),
                               AllOrders)
        IN  /\ (NewOrder.totalFilled = NewOrder.originalQty)
                   <=> (available >= NewOrder.originalQty)
            /\ NewOrder.totalFilled < NewOrder.originalQty
                   => (NewOrder.totalFilled = 0 /\ NewOrder.fills = <<>>)]_vars

\* an FOK order got nothing although an order it could cross was resting (one
\* that was filled only later), and a later FOK order was filled completely
C4_Witness ==
    \E k \in OrderIds, j \in OrderIds :
        /\ Order(k).orderType = FOK
        /\ Order(k).totalFilled = 0
        /\ \E i \in 0..(k - 1) :
               /\ Order(i).direction = Opposite(Order(k).direction)
               /\ IF Order(k).direction = BUY THEN Order(i).price <= Order(k).price
                                              ELSE Order(i).price >= Order(k).price
               /\ Order(i).fills # <<>>
               /\ Order(i).fills[1].ts[2] > Order(k).ts[2]
        /\ j > k
        /\ Order(j).orderType = FOK
        /\ Order(j).totalFilled = Order(j).originalQty

----------------------------------------------------------------------------
(* C5: each cross makes a fill of min(standing.qty, incoming.qty), the qty  *)
(* being those before the cross, at the standing order's price; both qty go *)
(* down and both totalFilled go up by it, the fill is appended to both      *)
(* orders, and an order is closed by the cross exactly when its qty is 0.   *)

ExecutionMessages(evs) == SelectSeq(evs, IsExecution)

\* what the first k - 1 crosses of a command filled
RECURSIVE FilledBefore(_, _)
FilledBefore(msgs, k) ==
    IF k <= 1 THEN 0 ELSE msgs[2 * (k - 1)].filled + FilledBefore(msgs, k - 1)

Min(a, b) == IF a < b THEN a ELSE b

C5_Cross ==
    [][Accepted =>
        LET msgs == ExecutionMessages(events')
            n == Len(msgs) \div 2
        IN  /\ Len(msgs) = 2 * n
            /\ Len(NewOrder.fills) = n
            /\ \A k \in 1..n :
                LET sm == msgs[2 * k - 1]
                    im == msgs[2 * k]
                    s == Order(sm.standingId)
                    before == FilledBefore(msgs, k)
                    iqty == NewOrder.originalQty - before
                    q == Min(s.qty, iqty)
                    fill == [price |-> s.price, qty |-> q, ts |-> sm.filledAt]
                    s2 == AllOrders'[sm.standingId + 1]
                IN  /\ IsStandingMessage(sm) /\ IsIncomingMessage(im)
                    /\ sm.standingId = im.standingId
                    /\ sm.incomingId = id /\ im.incomingId = id
                    /\ s.open /\ s.qty > 0 /\ iqty > 0
                    /\ sm.filled = q /\ im.filled = q
                    /\ sm.price = s.price /\ im.price = s.price
                    /\ sm.filledAt = im.filledAt
                    \* the standing order after the cross
                    /\ sm.order.qty = s.qty - q
                    /\ sm.order.totalFilled = s.totalFilled + q
                    /\ sm.order.fills = Append(s.fills, fill)
                    /\ sm.order.open = (s.qty - q # 0)
                    /\ sm.standingComplete = (s.qty - q = 0)
                    /\ im.standingComplete = (s.qty - q = 0)
                    /\ s2.qty = s.qty - q
                    /\ s2.totalFilled = s.totalFilled + q
                    /\ s2.fills = Append(s.fills, fill)
                    /\ s2.open = (s.qty - q # 0)
                    \* the incoming order after the cross
                    /\ im.order.qty = iqty - q
                    /\ im.order.totalFilled = before + q
                    /\ Len(im.order.fills) = k
                    /\ im.order.fills[k] = fill
                    /\ NewOrder.fills[k] = fill
                    /\ im.order.open = (iqty - q # 0)
                    /\ sm.incomingComplete = (iqty - q = 0)
                    /\ im.incomingComplete = (iqty - q = 0)]_vars

\* a MARKET order has crossed a standing order smaller than itself, which the
\* cross closed while the MARKET order stayed open, and then a larger one
C5_Witness ==
    /\ Len(events) >= 4
    /\ IsIncomingMessage(events[2]) /\ IsIncomingMessage(events[4])
    /\ events[2].order.orderType = "market"
    /\ events[2].standingComplete /\ ~events[2].incomingComplete
    /\ ~events[4].standingComplete /\ events[4].incomingComplete
    /\ events[2].price # events[4].price

----------------------------------------------------------------------------
(* C6: the limit gate.  No fill of a LIMIT, IOC or FOK buy is above the     *)
(* order's limit and no fill of such a sell is below it; and when such an   *)
(* order has been through the matcher and is left with unfilled quantity,   *)
(* no open order of the opposite side is at a price its limit admits.  (An  *)
(* FOK order goes through the matcher only if it can be filled.)            *)

C6_FillsWithinLimit ==
    \A k \in OrderIds :
        Order(k).orderType \in {LIMIT, IOC, FOK} =>
            \A f \in Range(Order(k).fills) :
                IF Order(k).direction = BUY THEN f.price <= Order(k).price
                                            ELSE f.price >= Order(k).price

C6_Maximal ==
    (/\ Accepted
     /\ NewOrder.orderType \in {LIMIT, IOC, FOK}
     /\ NewOrder.orderType = FOK => NewOrder.fills # <<>>
     /\ NewOrder.totalFilled < NewOrder.originalQty)
        => Admissible(AllOrders', NewOrder.direction, NewOrder.price) = {}

----------------------------------------------------------------------------
(* C7: only limit orders rest.  A MARKET, IOC or FOK order is closed with   *)
(* qty 0 when its ORDER command returns, whatever was filled, and is not in *)
(* the book; a LIMIT order that is open after matching is in the book, on   *)
(* its own side.                                                            *)

BookIds == Range(ChainIds(FirstBidLevel)) \cup Range(ChainIds(FirstAskLevel))

\* order k is in a level of its own price of the chain of its own side
OnOwnSide(k) ==
    LET own == IF Order(k).direction = BUY THEN FirstBidLevel ELSE FirstAskLevel
    IN  \E level \in Range(own) : level.price = Order(k).price /\ k \in Range(level.nodes)

C7_OnlyLimitOrdersRest ==
    \A k \in OrderIds :
        /\ Order(k).orderType \in {MARKET, IOC, FOK} =>
               (~Order(k).open /\ Order(k).qty = 0 /\ k \notin BookIds)
        /\ (Order(k).orderType = LIMIT /\ Order(k).open) => OnOwnSide(k)

\* a MARKET order was filled in part and closed, and a LIMIT order that was
\* filled in part rests
C7_Witness ==
    /\ \E k \in OrderIds : /\ Order(k).orderType = MARKET
                           /\ Order(k).totalFilled > 0
                           /\ Order(k).totalFilled < Order(k).originalQty
    /\ \E k \in OrderIds : /\ Order(k).orderType = LIMIT
                           /\ Order(k).open
                           /\ k \in BookIds

----------------------------------------------------------------------------
(* C8: every order in the book is open with qty > 0, and every level of the *)
(* book holds at least one order.                                           *)

C8_BookHoldsOpenOrders ==
    /\ \A level \in Range(FirstBidLevel) \cup Range(FirstAskLevel) : level.nodes # <<>>
    /\ \A k \in BookIds : Order(k).open /\ Order(k).qty > 0

\* a command has closed the only order of the best level, and a second level
\* is left
C8_Witness ==
    /\ Len(events) >= 2
    /\ IsStandingMessage(events[1])
    /\ events[1].standingComplete
    /\ Len(FirstBidLevel) + Len(FirstAskLevel) = 1
    /\ \E level \in Range(FirstBidLevel) \cup Range(FirstAskLevel) :
           level.price # events[1].price /\
           Order(level.nodes[1]).direction = IF events[1].order.direction = "buy" THEN BUY ELSE SELL

----------------------------------------------------------------------------
(* C9: the bid chain is strictly descending in price and the ask chain      *)
(* strictly ascending, so no two levels of a side have one price; and an    *)
(* order that is put on the book is appended to the tail of the level of    *)
(* its price, or is the only order of a new level at the sorted position,   *)
(* the rest of its side staying as it was.                                  *)

C9_Sorted ==
    /\ \A k \in 1..(Len(FirstBidLevel) - 1) :
           FirstBidLevel[k].price > FirstBidLevel[k + 1].price
    /\ \A k \in 1..(Len(FirstAskLevel) - 1) :
           FirstAskLevel[k].price < FirstAskLevel[k + 1].price

\* p comes before r on the side of `direction`
Before(p, r, direction) == IF direction = BUY THEN p > r ELSE p < r

C9_Insert ==
    (Accepted /\ NewOrder.open) =>
        LET direction == NewOrder.direction
            p == NewOrder.price
            own == IF direction = BUY THEN FirstBidLevel ELSE FirstAskLevel
            own2 == IF direction = BUY THEN FirstBidLevel' ELSE FirstAskLevel'
        IN  IF \E k \in 1..Len(own) : own[k].price = p
            THEN \E k \in 1..Len(own) :
                     /\ own[k].price = p
                     /\ own2 = [own EXCEPT ![k].nodes = Append(@, id)]
            ELSE \E k \in 1..(Len(own) + 1) :
                     /\ k > 1 => Before(own[k - 1].price, p, direction)
                     /\ k <= Len(own) => Before(p, own[k].price, direction)
                     /\ own2 = SubSeq(own, 1, k - 1)
                                 \o <<[price |-> p, nodes |-> <<id>>]>>
                                 \o SubSeq(own, k, Len(own))

C9_SortedChains == []C9_Sorted /\ [][C9_Insert]_vars

\* the order placed last is alone in a level between two other levels
C9_Witness ==
    \E chain \in {FirstBidLevel, FirstAskLevel} :
        /\ Len(chain) = 3
        /\ chain[2].nodes = <<HighestKnownOrder>>

----------------------------------------------------------------------------
(* SpecLevels: limit and market orders of one account at three prices, so   *)
(* that a side of the book gets three levels.                               *)

LevelPrices == {0, 1, 2}

OrderLevels ==
    \E qty \in Qtys, price \in LevelPrices, direction \in Directions,
       orderType \in {LIMIT, MARKET} :
        ORDER("A", 0, qty, price, direction, orderType)

NextLevels == OrderLevels \/ CancelCommand

SpecLevels == Init /\ [][NextLevels]_vars

----------------------------------------------------------------------------
(* SpecLedger: cross()'s update of the two accounts as a function.  The     *)
(* initial states are two accounts with shares and cents drawn from the     *)
(* ends and the middle of the range of a clamped int; one step applies the  *)
(* update for one cross.                                                    *)

LedgerValues == {0 - INT_CLAMP, 1 - INT_CLAMP, 0, INT_CLAMP - 1, INT_CLAMP}
LedgerQtys == {1, 2, 65536, INT_CLAMP}
LedgerPrices == {0, 1, 2, 65536}

LedgerAccount(name, shares, cents) ==
    [name |-> name, orders |-> <<>>,
     posmin |-> IF shares < 0 THEN shares ELSE 0,
     posmax |-> IF shares > 0 THEN shares ELSE 0,
     shares |-> shares, cents |-> cents]

InitLedger ==
    /\ InitBook
    /\ CurrentAccountArrayLen = ACCOUNT_CHUNK
    /\ \E name \in {"A", "B"}, s0 \in LedgerValues, c0 \in LedgerValues,
          s1 \in LedgerValues, c1 \in LedgerValues :
           AllAccounts = [n \in {0, 1} |-> IF n = 0 THEN LedgerAccount("A", s0, c0)
                                                    ELSE LedgerAccount(name, s1, c1)]

LedgerCross ==
    /\ call = <<>>
    /\ \E standing \in {0, 1}, sdirection \in Directions, quantity \in LedgerQtys,
          price \in LedgerPrices :
           /\ AllAccounts' = cross_accounts(AllAccounts, standing, 1 - standing,
                                            sdirection, quantity, price)
           /\ call' = [standing |-> standing, incoming |-> 1 - standing,
                       direction |-> sdirection, quantity |-> quantity, price |-> price]
    /\ UNCHANGED <<AllOrders, HighestKnownOrder, id, CurrentAccountArrayLen,
                   FirstBidLevel, FirstAskLevel, Quote, clock, wall, events, reply,
                   fault>>

NextLedger == LedgerCross

SpecLedger == InitLedger /\ [][NextLedger]_vars

----------------------------------------------------------------------------
(* C10: the ledger update saturates.  For a cross of qty q at price p       *)
(* between accounts of different names the buyer's shares become            *)
(* clamp(shares + q) and cents clamp(cents - p * q), the seller's shares    *)
(* clamp(shares - q) and cents clamp(cents + p * q), clamp limiting to      *)
(* [-2147483647, 2147483647] and p * q being the exact product; so shares   *)
(* and cents of every account stay in that range.                           *)
(* clamp(a + b) and clamp(a - p * q) are computed here in the integers      *)
(* without a number outside the range: a sum saturates once and stays, so   *)
(* the product is added or subtracted in parts that are in the range.       *)

\* clamp(a + b) for a in the range and 0 <= b <= INT_CLAMP
ClampAdd(a, b) == IF a > 0 /\ b > INT_CLAMP - a THEN INT_CLAMP ELSE a + b

\* clamp(a - b) for a in the range and 0 <= b <= INT_CLAMP
ClampSub(a, b) == IF a < 0 /\ b > INT_CLAMP + a THEN 0 - INT_CLAMP ELSE a - b

\* clamp(a + p * q) for a in the range, 0 <= p <= INT_CLAMP and q >= 0
RECURSIVE ClampAddProduct(_, _, _)
ClampAddProduct(a, p, q) ==
    IF q = 0 \/ p = 0 \/ a = INT_CLAMP THEN a
    ELSE IF q = 1 THEN ClampAdd(a, p)
    ELSE IF p > INT_CLAMP \div 2
         THEN ClampAddProduct(ClampAdd(ClampAdd(a, p), p), p, q - 2)
    ELSE ClampAddProduct(ClampAddProduct(a, 2 * p, q \div 2), p, q % 2)

\* clamp(a - p * q) for a in the range, 0 <= p <= INT_CLAMP and q >= 0
RECURSIVE ClampSubProduct(_, _, _)
ClampSubProduct(a, p, q) ==
    IF q = 0 \/ p = 0 \/ a = 0 - INT_CLAMP THEN a
    ELSE IF q = 1 THEN ClampSub(a, p)
    ELSE IF p > INT_CLAMP \div 2
         THEN ClampSubProduct(ClampSub(ClampSub(a, p), p), p, q - 2)
    ELSE ClampSubProduct(ClampSubProduct(a, 2 * p, q \div 2), p, q % 2)

C10_InRange ==
    \A n \in DOMAIN AllAccounts :
        /\ AllAccounts[n].shares >= 0 - INT_CLAMP /\ AllAccounts[n].shares <= INT_CLAMP
        /\ AllAccounts[n].cents >= 0 - INT_CLAMP /\ AllAccounts[n].cents <= INT_CLAMP

C10_Update ==
    (call' # call /\ AllAccounts[0].name # AllAccounts[1].name) =>
        LET buyer == IF call'.direction = BUY THEN call'.standing ELSE call'.incoming
            seller == 1 - buyer
            q == call'.quantity
            p == call'.price
        IN  /\ AllAccounts'[buyer].shares = ClampAdd(AllAccounts[buyer].shares, q)
            /\ AllAccounts'[buyer].cents = ClampSubProduct(AllAccounts[buyer].cents, p, q)
            /\ AllAccounts'[seller].shares = ClampSub(AllAccounts[seller].shares, q)
            /\ AllAccounts'[seller].cents = ClampAddProduct(AllAccounts[seller].cents, p, q)

C10_LedgerSaturates == []C10_InRange /\ [][C10_Update]_vars

\* a cross of 65536 at 65536, whose amount is 2^32, has clamped the cents of
\* both accounts, and has moved the shares without a clamp
C10_Witness ==
    /\ call # <<>>
    /\ AllAccounts[0].name # AllAccounts[1].name
    /\ call.quantity = 65536 /\ call.price = 65536
    /\ \E n \in {0, 1} : AllAccounts[n].cents = INT_CLAMP /\ AllAccounts[n].shares = 0 - 65536
    /\ \E n \in {0, 1} : AllAccounts[n].cents = 0 - INT_CLAMP /\ AllAccounts[n].shares = 65536

----------------------------------------------------------------------------
(* SpecAccounts: limit and market orders at one price from two account      *)
(* ids, each of which gets the name A or B when its first order arrives, so *)
(* that the two accounts of a cross are one account, two accounts of one    *)
(* name, or two accounts of two names.                                      *)

AccountNames == {"A", "B"}
TwoAccountInts == {0, 1}

OrderAccounts ==
    \E account_name \in AccountNames, account_int \in TwoAccountInts, qty \in Qtys,
       direction \in Directions, orderType \in {LIMIT, MARKET} :
        ORDER(account_name, account_int, qty, 1, direction, orderType)

NextAccounts == OrderAccounts \/ CancelCommand

SpecAccounts == Init /\ [][NextAccounts]_vars

----------------------------------------------------------------------------
(* C11: the self-trade rule.  A cross between orders of accounts of one     *)
(* name leaves shares, cents, posmin and posmax of every account as they    *)
(* were, while the fill is appended to both orders, last and lastSize of    *)
(* the quote are those of the cross and a ticker is emitted for the order;  *)
(* a cross between accounts of two names moves the shares and the cents of  *)
(* both.                                                                    *)

\* the crosses of a command: its execution messages to the standing accounts
Crosses(evs) == SelectSeq(evs, IsStandingMessage)

\* the name of the account of order k after the step
NameOfOrder(k) == AllAccounts'[AllOrders'[k + 1].account].name

SameName(c) == NameOfOrder(c.standingId) = NameOfOrder(c.incomingId)

\* what the cross c gives the account n: +1 for the buyer, -1 for the seller, 0
\* for any other account and for a cross within one name
SideOf(c, n) ==
    IF SameName(c) THEN 0
    ELSE IF AllOrders'[c.standingId + 1].account = n
         THEN (IF AllOrders'[c.standingId + 1].direction = BUY THEN 1 ELSE -1)
    ELSE IF AllOrders'[c.incomingId + 1].account = n
         THEN (IF AllOrders'[c.incomingId + 1].direction = BUY THEN 1 ELSE -1)
    ELSE 0

RECURSIVE SharesMoved(_, _)
SharesMoved(cs, n) ==
    IF cs = <<>> THEN 0
    ELSE SideOf(Head(cs), n) * Head(cs).filled + SharesMoved(Tail(cs), n)

RECURSIVE CentsMoved(_, _)
CentsMoved(cs, n) ==
    IF cs = <<>> THEN 0
    ELSE (0 - SideOf(Head(cs), n)) * Head(cs).filled * Head(cs).price
         + CentsMoved(Tail(cs), n)

\* the ledger of account n before the step; an account that does not exist yet
\* is made with an empty ledger
LedgerBefore(n) ==
    IF n \in DOMAIN AllAccounts
    THEN [shares |-> AllAccounts[n].shares, cents |-> AllAccounts[n].cents,
          posmin |-> AllAccounts[n].posmin, posmax |-> AllAccounts[n].posmax]
    ELSE [shares |-> 0, cents |-> 0, posmin |-> 0, posmax |-> 0]

LedgerAfter(n) ==
    [shares |-> AllAccounts'[n].shares, cents |-> AllAccounts'[n].cents,
     posmin |-> AllAccounts'[n].posmin, posmax |-> AllAccounts'[n].posmax]

C11_SelfTrade ==
    [][Accepted =>
        LET cs == Crosses(events')
        IN  /\ \A n \in DOMAIN AllAccounts' :
                /\ LedgerAfter(n).shares = LedgerBefore(n).shares + SharesMoved(cs, n)
                /\ LedgerAfter(n).cents = LedgerBefore(n).cents + CentsMoved(cs, n)
                /\ (\A k \in 1..Len(cs) :
                       SameName(cs[k]) \/ (AllOrders'[cs[k].standingId + 1].account # n
                                           /\ AllOrders'[cs[k].incomingId + 1].account # n))
                       => LedgerAfter(n) = LedgerBefore(n)
            /\ \A k \in 1..Len(cs) :
                LET fill == [price |-> cs[k].price, qty |-> cs[k].filled,
                             ts |-> cs[k].filledAt]
                IN  /\ AllOrders'[cs[k].standingId + 1].fills
                           = Append(Order(cs[k].standingId).fills, fill)
                    /\ NewOrder.fills[k] = fill
            /\ Len(NewOrder.fills) = Len(cs)
            /\ cs # <<>> =>
                /\ Quote'.last = cs[Len(cs)].price
                /\ Quote'.lastSize = cs[Len(cs)].filled
                /\ events'[Len(events')] = create_ticker_message(Quote')
                /\ Len(SelectSeq(events', LAMBDA e : e.type = "TICKER")) = 1]_vars

\* two accounts of the name A have crossed: both orders have the fill, the
\* quote has its price and size, and the ledgers of both accounts are empty
C11_Witness ==
    /\ DOMAIN AllAccounts = {0, 1}
    /\ AllAccounts[0].name = AllAccounts[1].name
    /\ \E c \in Range(Crosses(events)) :
        /\ Order(c.standingId).account # Order(c.incomingId).account
        /\ Order(c.standingId).fills # <<>>
        /\ Order(c.incomingId).fills # <<>>
        /\ Quote.last = c.price /\ Quote.lastSize = c.filled
    /\ \A n \in {0, 1} : AllAccounts[n].shares = 0 /\ AllAccounts[n].cents = 0
                         /\ AllAccounts[n].posmin = 0 /\ AllAccounts[n].posmax = 0

----------------------------------------------------------------------------
(* C12: the ledger is the sum of the fills.  As claimed, for every account  *)
(* and every choice of names: shares are the sum over the fills of the      *)
(* account's orders of +qty for a buy order and -qty for a sell order, and  *)
(* cents the sum of -price * qty for a buy and +price * qty for a sell.  As *)
(* the code has it, on condition that no two account ids have one name: a   *)
(* cross between two accounts of one name is recorded in the fills of both  *)
(* orders and in neither ledger.                                            *)

RECURSIVE FillsQty(_)
FillsQty(fills) == IF fills = <<>> THEN 0 ELSE Head(fills).qty + FillsQty(Tail(fills))

RECURSIVE FillsAmount(_)
FillsAmount(fills) ==
    IF fills = <<>> THEN 0
    ELSE Head(fills).price * Head(fills).qty + FillsAmount(Tail(fills))

\* over the orders of an account's list: the shares their fills bought
RECURSIVE SharesOfFills(_)
SharesOfFills(ids) ==
    IF ids = <<>> THEN 0
    ELSE (IF Order(Head(ids)).direction = BUY THEN FillsQty(Order(Head(ids)).fills)
                                             ELSE 0 - FillsQty(Order(Head(ids)).fills))
         + SharesOfFills(Tail(ids))

\* over the orders of an account's list: the cents their fills brought in
RECURSIVE CentsOfFills(_)
CentsOfFills(ids) ==
    IF ids = <<>> THEN 0
    ELSE (IF Order(Head(ids)).direction = BUY THEN 0 - FillsAmount(Order(Head(ids)).fills)
                                             ELSE FillsAmount(Order(Head(ids)).fills))
         + CentsOfFills(Tail(ids))

LedgerIsSumOfFills ==
    \A n \in DOMAIN AllAccounts :
        /\ AllAccounts[n].shares = SharesOfFills(AllAccounts[n].orders)
        /\ AllAccounts[n].cents = CentsOfFills(AllAccounts[n].orders)

\* the claim as made
C12_Original == LedgerIsSumOfFills

NamesDiffer ==
    \A a \in DOMAIN AllAccounts, b \in DOMAIN AllAccounts :
        a # b => AllAccounts[a].name # AllAccounts[b].name

\* C12 as amended: if no two account ids have one name, then for every
\* account shares and cents are the sums over the fills of its orders
C12_LedgerSums == NamesDiffer => LedgerIsSumOfFills

\* accounts A and B have traded with each other, and one of them with itself
C12_Witness ==
    /\ DOMAIN AllAccounts = {0, 1}
    /\ NamesDiffer
    /\ AllAccounts[0].shares # 0
    /\ AllAccounts[1].cents # 0
    /\ \E n \in {0, 1} :
        Len(AllAccounts[n].orders) = 2
        /\ AllAccounts[n].shares # SharesOfFills(<<AllAccounts[n].orders[1]>>)

----------------------------------------------------------------------------
(* C13: the fills.  Every cross appends one fill, of one price, qty and ts, *)
(* to the end of the fills of both of its orders; so totalFilled of every   *)
(* order is the sum of the qty of its fills, and the sum of the qty of all  *)
(* fills of all orders is twice the volume matched, a cross being recorded  *)
(* once by its buy order and once by its sell order.                        *)

\* the sum of the qty of the fills of the orders of the set S of ids
RECURSIVE FillsQtyOf(_, _)
FillsQtyOf(S, orders) ==
    IF S = {} THEN 0
    ELSE LET k == CHOOSE k \in S : TRUE
         IN  FillsQty(orders[k + 1].fills) + FillsQtyOf(S \ {k}, orders)

RECURSIVE Volume(_)
Volume(cs) == IF cs = <<>> THEN 0 ELSE Head(cs).filled + Volume(Tail(cs))

C13_Sums ==
    /\ \A k \in OrderIds : Order(k).totalFilled = FillsQty(Order(k).fills)
    /\ FillsQtyOf(OrderIds, AllOrders)
           = 2 * FillsQtyOf({k \in OrderIds : Order(k).direction = BUY}, AllOrders)

C13_Append ==
    /\ Accepted =>
        LET cs == Crosses(events')
        IN  /\ \A k \in 1..Len(cs) :
                LET fill == [price |-> cs[k].price, qty |-> cs[k].filled,
                             ts |-> cs[k].filledAt]
                IN  /\ AllOrders'[cs[k].standingId + 1].fills
                           = Append(Order(cs[k].standingId).fills, fill)
                    /\ SubSeq(NewOrder.fills, 1, k)
                           = Append(SubSeq(NewOrder.fills, 1, k - 1), fill)
            /\ Len(NewOrder.fills) = Len(cs)
            /\ \A k \in OrderIds :
                (\A j \in 1..Len(cs) : cs[j].standingId # k)
                    => AllOrders'[k + 1].fills = Order(k).fills
            /\ FillsQtyOf(0..id, AllOrders')
                   = FillsQtyOf(OrderIds, AllOrders) + 2 * Volume(cs)
    /\ ~Accepted =>
        \A k \in OrderIds : AllOrders'[k + 1].fills = Order(k).fills

C13_FillLedger == []C13_Sums /\ [][C13_Append]_vars

\* an order has two fills, and the second is the last fill of a later order too
C13_Witness ==
    \E k \in OrderIds, j \in OrderIds :
        /\ k < j
        /\ Len(Order(k).fills) = 2
        /\ Order(j).fills # <<>>
        /\ Order(j).fills[Len(Order(j).fills)] = Order(k).fills[2]
        /\ Order(k).totalFilled = Order(k).fills[1].qty + Order(k).fills[2].qty

----------------------------------------------------------------------------
(* C14: posmin and posmax.  For every account posmin <= shares <= posmax    *)
(* and posmin <= 0 <= posmax; posmin never increases and posmax never       *)
(* decreases, and an update makes them the least and the greatest of their  *)
(* old value and the share count as it is after clamping.                   *)

Max(a, b) == IF a > b THEN a ELSE b

C14_Bounds ==
    \A n \in DOMAIN AllAccounts :
        /\ AllAccounts[n].posmin <= AllAccounts[n].shares
        /\ AllAccounts[n].shares <= AllAccounts[n].posmax
        /\ AllAccounts[n].posmin <= 0
        /\ AllAccounts[n].posmax >= 0

C14_Running ==
    \A n \in DOMAIN AllAccounts :
        /\ AllAccounts'[n].posmin <= AllAccounts[n].posmin
        /\ AllAccounts'[n].posmax >= AllAccounts[n].posmax
        /\ AllAccounts'[n].posmin = Min(AllAccounts[n].posmin, AllAccounts'[n].shares)
        /\ AllAccounts'[n].posmax = Max(AllAccounts[n].posmax, AllAccounts'[n].shares)

C14_PosMinMax == []C14_Bounds /\ [][C14_Running]_vars

\* a cross of 65536 has clamped the shares of the buyer at 2147483647, which
\* is its posmax, and those of the seller at -2147483647, which is its posmin
C14_Witness ==
    /\ call # <<>>
    /\ AllAccounts[0].name # AllAccounts[1].name
    /\ call.quantity = 65536
    /\ \E n \in {0, 1} : AllAccounts[n].shares = INT_CLAMP
                         /\ AllAccounts[n].posmax = INT_CLAMP
                         /\ AllAccounts[n].posmin = 0
    /\ \E n \in {0, 1} : AllAccounts[n].shares = 0 - INT_CLAMP
                         /\ AllAccounts[n].posmin = 0 - INT_CLAMP
                         /\ AllAccounts[n].posmax = 0

----------------------------------------------------------------------------
(* C15: CANCEL of a resting limit order.  The order gets open = false and   *)
(* qty = 0 and keeps its totalFilled and fills; it is taken out of its      *)
(* level, whose other orders keep their places, and the level goes when it  *)
(* is left empty; every other order and every account stay as they are; the *)
(* quote is made anew from the book and exactly one ticker is emitted.      *)

\* the chain without order k, and without the level that held nothing else
WithoutOrder(chain, k) ==
    SelectSeq([i \in 1..Len(chain) |->
                  [chain[i] EXCEPT !.nodes = SelectSeq(@, LAMBDA x : x # k)]],
              LAMBDA level : level.nodes # <<>>)

\* what the quote says of one side of the book, for the orders given
SideOfQuote(chain, orders) ==
    [best |-> IF chain = <<>> THEN -1 ELSE chain[1].price,
     size |-> IF chain = <<>> THEN 0 ELSE QtyOf(Range(chain[1].nodes), orders),
     depth |-> QtyOf(Range(ChainIds(chain)), orders)]

RestingLimit(k) == Order(k).orderType = LIMIT /\ Order(k).open /\ k \in BookIds

C15_Cancel ==
    [][\A k \in OrderIds : (RestingLimit(k) /\ CANCEL(k)) =>
        /\ AllOrders' = [AllOrders EXCEPT ![k + 1].open = FALSE, ![k + 1].qty = 0]
        /\ AllOrders'[k + 1].totalFilled = Order(k).totalFilled
        /\ AllOrders'[k + 1].fills = Order(k).fills
        /\ AllAccounts' = AllAccounts
        /\ FirstBidLevel' = WithoutOrder(FirstBidLevel, k)
        /\ FirstAskLevel' = WithoutOrder(FirstAskLevel, k)
        /\ k \notin Range(ChainIds(FirstBidLevel')) \cup Range(ChainIds(FirstAskLevel'))
        /\ LET bids == SideOfQuote(FirstBidLevel', AllOrders')
               asks == SideOfQuote(FirstAskLevel', AllOrders')
           IN  /\ Quote'.bid = bids.best /\ Quote'.bidSize = bids.size
               /\ Quote'.bidDepth = bids.depth
               /\ Quote'.ask = asks.best /\ Quote'.askSize = asks.size
               /\ Quote'.askDepth = asks.depth
               /\ Quote'.last = Quote.last /\ Quote'.lastSize = Quote.lastSize
               /\ Quote'.lastTrade = Quote.lastTrade
        /\ events' = <<create_ticker_message(Quote')>>]_vars

\* the second of three orders of a level has been cancelled: the first and the
\* third are left in the level, in this order
C15_Witness ==
    /\ HighestKnownOrder = 2
    /\ Order(1).orderType = LIMIT /\ ~Order(1).open /\ Order(1).qty = 0
    /\ Order(1).totalFilled = 0
    /\ \E chain \in {FirstBidLevel, FirstAskLevel} :
        /\ Len(chain) = 1
        /\ chain[1].nodes = <<0, 2>>
        /\ chain[1].price = Order(1).price
    /\ Len(events) = 1 /\ events[1].type = "TICKER"

----------------------------------------------------------------------------
(* SpecCommands: orders of one account at one price, orders that the checks *)
(* of execute_order() turn down, and CANCEL and STATUS of any id, known or  *)
(* not.                                                                     *)

\* the STATUS branch of main()
STATUS(order_id) ==
    /\ fault = "none"
    /\ reply' = IF order_id < 0 \/ order_id > HighestKnownOrder
                   \/ AllOrders[order_id + 1] = NULL
                THEN NoSuchID
                ELSE print_order(AllOrders[order_id + 1], AllAccounts)
    /\ events' = <<>>
    /\ UNCHANGED <<AllOrders, HighestKnownOrder, id, AllAccounts, CurrentAccountArrayLen,
                   FirstBidLevel, FirstAskLevel, Quote, clock, wall, fault, call>>

\* account_int, qty, price and direction of orders that are turned down
RejectedOrders ==
    {<<MAXACCOUNTS, 1, 1, BUY>>, <<MAXACCOUNTS, 0, 1, BUY>>, <<0, 0, 1, BUY>>,
     <<0, 1, -1, SELL>>, <<0, 1, 1, 0>>, <<0, 1, 1, 3>>}

\* the ids the clients ask about
CommandIds == -1..MaxOrders

OrderOnePrice ==
    \E qty \in Qtys, direction \in Directions, orderType \in OrderTypes :
        ORDER("A", 0, qty, 1, direction, orderType)

OrderRejected ==
    \E t \in RejectedOrders : ORDER("A", t[1], t[2], t[3], t[4], LIMIT)

CancelAny == \E order_id \in CommandIds : CANCEL(order_id)

StatusAny == \E order_id \in CommandIds : STATUS(order_id)

NextCommands == OrderOnePrice \/ OrderRejected \/ CancelAny \/ StatusAny

SpecCommands == Init /\ [][NextCommands]_vars

----------------------------------------------------------------------------
(* C16: CANCEL of a known order that is not a resting limit order (a        *)
(* MARKET, IOC or FOK order, a limit order that is filled or was cancelled) *)
(* changes no state and emits no ticker, and returns the order record; an   *)
(* order is not a resting limit order once it has been cancelled, so a      *)
(* second CANCEL of an id leaves the state the first has left and returns   *)
(* the record the first has returned.                                       *)

C16_NoEffect ==
    \A k \in OrderIds : (~RestingLimit(k) /\ CANCEL(k)) =>
        /\ UNCHANGED <<AllOrders, HighestKnownOrder, id, AllAccounts,
                       CurrentAccountArrayLen, FirstBidLevel, FirstAskLevel, Quote,
                       clock, fault>>
        /\ events' = <<>>
        /\ reply' = print_order(Order(k), AllAccounts)

C16_Once ==
    \A k \in OrderIds : CANCEL(k) =>
        /\ ~AllOrders'[k + 1].open
        /\ k \notin Range(ChainIds(FirstBidLevel')) \cup Range(ChainIds(FirstAskLevel'))
        /\ reply' = print_order(AllOrders'[k + 1], AllAccounts')

C16_CancelTwice == [][C16_NoEffect /\ C16_Once]_vars

\* the last command has returned the record of an order that is no limit order
\* and was partly filled, as its CANCEL does, and has emitted no ticker; a
\* limit order that is filled is in the store too
C16_Witness ==
    /\ HighestKnownOrder = 2
    /\ events = <<>>
    /\ reply # <<>> /\ reply.ok /\ ~reply.open
    /\ \E k \in OrderIds : Order(k).orderType = LIMIT /\ ~Order(k).open
                           /\ Order(k).totalFilled = Order(k).originalQty
    /\ \E k \in OrderIds : Order(k).orderType # LIMIT /\ Order(k).totalFilled > 0
                           /\ Order(k).totalFilled < Order(k).originalQty
                           /\ reply.id = k /\ reply.totalFilled = Order(k).totalFilled
                           /\ reply.fills = Order(k).fills

----------------------------------------------------------------------------
(* C17: an ORDER that is turned down has no side effects.  No id is         *)
(* consumed, no order and no account is made, the book, the quote and every *)
(* account are as before and nothing is written to the event stream; so the *)
(* next order that is accepted gets the id it would have got.               *)

C17_Rejected ==
    [][\A t \in RejectedOrders, orderType \in OrderTypes :
        ORDER("A", t[1], t[2], t[3], t[4], orderType) =>
            /\ reply'.ok = FALSE
            /\ reply'.error = "Backend error"
            /\ reply'.code \in {TOO_HIGH_ACCOUNT, SILLY_VALUE}
            /\ UNCHANGED <<AllOrders, HighestKnownOrder, id, AllAccounts,
                           CurrentAccountArrayLen, FirstBidLevel, FirstAskLevel, Quote,
                           clock, fault>>
            /\ events' = <<>>]_vars

\* an order was turned down after two were accepted, one of them resting
C17_Witness ==
    /\ reply # <<>> /\ ~reply.ok /\ reply.error = "Backend error"
    /\ id = 2 /\ HighestKnownOrder = 1 /\ Len(AllOrders) = 2
    /\ DOMAIN AllAccounts = {0}
    /\ BookIds # {}
    /\ events = <<>>

----------------------------------------------------------------------------
(* C19: ids are dense and grow by one.  The k-th order that is accepted     *)
(* gets id k - 1, whatever orders were turned down and whatever other       *)
(* commands came in between; every id from 0 to HighestKnownOrder is that   *)
(* of a stored order, and STATUS and CANCEL answer "No such ID" for the ids *)
(* outside this range and for no other.                                     *)

C19_Dense ==
    /\ id = Len(AllOrders)
    /\ HighestKnownOrder = id - 1
    /\ \A k \in 1..Len(AllOrders) : AllOrders[k] # NULL /\ AllOrders[k].id = k - 1

C19_Step ==
    /\ Accepted => /\ NewOrder.id = id
                   /\ reply'.id = id
                   /\ Len(AllOrders') = Len(AllOrders) + 1
                   /\ \A k \in OrderIds : AllOrders'[k + 1].id = k
    /\ ~Accepted => /\ id' = id
                    /\ Len(AllOrders') = Len(AllOrders)
    /\ \A k \in CommandIds :
        (CANCEL(k) \/ STATUS(k)) =>
            /\ (reply' = NoSuchID) = (k < 0 \/ k > HighestKnownOrder)
            /\ (reply' # NoSuchID) => (reply'.ok /\ reply'.id = k)

C19_DenseIds == []C19_Dense /\ [][C19_Step]_vars

\* three orders were accepted, and the last command asked about an id that is
\* not known
C19_Witness ==
    /\ id = 3 /\ HighestKnownOrder = 2
    /\ reply = NoSuchID
    /\ \A k \in 0..2 : Order(k).id = k

----------------------------------------------------------------------------
(* SpecAdmission: the checks at the top of execute_order() as a function of *)
(* the static id of next_id() and of the arguments, which are drawn from    *)
(* both sides of every limit that is tested; and, as commands, limit orders *)
(* of qty 1 at price 0 and an order for account 5000 with qty 0.            *)

AdmissionIds == {0, 1, MAXORDERS - 1, MAXORDERS}
AdmissionAccounts == {-1, 0, MAXACCOUNTS - 1, MAXACCOUNTS, MAXACCOUNTS + 1}
AdmissionQtys == {-1, 0, 1, 2}
AdmissionPrices == {-1, 0, 1}
AdmissionDirections == {0, BUY, SELL, 3}

ExecuteOrderChecks ==
    /\ call = <<>>
    /\ \E static_id \in AdmissionIds, account_int \in AdmissionAccounts,
          qty \in AdmissionQtys, price \in AdmissionPrices,
          direction \in AdmissionDirections :
           call' = [static_id |-> static_id, account_int |-> account_int, qty |-> qty,
                    price |-> price, direction |-> direction,
                    error |-> execute_order_error(static_id, account_int, qty, price,
                                                  direction)]
    /\ UNCHANGED <<AllOrders, HighestKnownOrder, id, AllAccounts, CurrentAccountArrayLen,
                   FirstBidLevel, FirstAskLevel, Quote, clock, wall, events, reply,
                   fault>>

OrderAtZero == \E direction \in Directions : ORDER("A", 0, 1, 0, direction, LIMIT)

OrderHighAccount == ORDER("A", MAXACCOUNTS, 0, 1, BUY, LIMIT)

NextAdmission == ExecuteOrderChecks \/ OrderAtZero \/ OrderHighAccount

SpecAdmission == Init /\ [][NextAdmission]_vars

----------------------------------------------------------------------------
(* C18: the admission rule.  An ORDER is accepted if and only if the id cap *)
(* is not reached, account_int < 5000, price >= 0, qty >= 1 and direction   *)
(* is buy or sell; else the error is that of the first check that fails, in *)
(* the order TOO_MANY_ORDERS, TOO_HIGH_ACCOUNT, SILLY_VALUE.  A limit buy   *)
(* of qty 1 at price 0 is accepted and rests at price 0.                    *)

IdCapReached(static_id) == static_id >= MAXORDERS
AccountTooHigh(account_int) == ~(account_int < 5000)
ValuesSilly(qty, price, direction) ==
    ~(price >= 0 /\ qty >= 1 /\ direction \in {BUY, SELL})

C18_Checks ==
    call # <<>> =>
        /\ (call.error = 0) = (/\ ~IdCapReached(call.static_id)
                               /\ ~AccountTooHigh(call.account_int)
                               /\ ~ValuesSilly(call.qty, call.price, call.direction))
        /\ IdCapReached(call.static_id) => call.error = TOO_MANY_ORDERS
        /\ (~IdCapReached(call.static_id) /\ AccountTooHigh(call.account_int))
               => call.error = TOO_HIGH_ACCOUNT
        /\ (/\ ~IdCapReached(call.static_id) /\ ~AccountTooHigh(call.account_int)
            /\ ValuesSilly(call.qty, call.price, call.direction))
               => call.error = SILLY_VALUE

C18_Examples ==
    /\ ORDER("A", MAXACCOUNTS, 0, 1, BUY, LIMIT) =>
           ~reply'.ok /\ reply'.code = TOO_HIGH_ACCOUNT /\ id' = id
    /\ ORDER("A", 0, 1, 0, BUY, LIMIT) =>
        /\ Accepted
        /\ reply'.ok /\ reply'.id = id /\ reply'.price = 0
        /\ FirstAskLevel = <<>> =>
            /\ NewOrder.open /\ NewOrder.qty = 1
            /\ FirstBidLevel'[Len(FirstBidLevel')].price = 0
            /\ id \in Range(FirstBidLevel'[Len(FirstBidLevel')].nodes)

----------------------------------------------------------------------------
(* C20: an accepted MARKET, IOC or FOK order that gets no fill (an FOK      *)
(* order that cannot be filled, nothing on the opposite side, nothing there *)
(* at an admissible price) leaves the book, the quote with its quoteTime    *)
(* and the ledger of every account as they are and emits no event; all that *)
(* changes is that the order, closed with qty 0 and no fills, is in the     *)
(* order store and in the list of its account.                              *)

\* the accounts before the step, account n being made if it is not there
AccountsWith(n, name) ==
    IF n \in DOMAIN AllAccounts THEN AllAccounts
    ELSE [a \in DOMAIN AllAccounts \cup {n} |->
             IF a = n THEN [name |-> name, orders |-> <<>>, posmin |-> 0, posmax |-> 0,
                            shares |-> 0, cents |-> 0]
                      ELSE AllAccounts[a]]

C20_NoFill ==
    [][(Accepted /\ NewOrder.orderType # LIMIT /\ NewOrder.fills = <<>>) =>
        /\ UNCHANGED <<FirstBidLevel, FirstAskLevel, Quote>>
        /\ events' = <<>>
        /\ ~NewOrder.open /\ NewOrder.qty = 0 /\ NewOrder.totalFilled = 0
        /\ NewOrder.id = id
        /\ DOMAIN AllOrders' = 1..(id + 1)
        /\ \A k \in OrderIds : AllOrders'[k + 1] = Order(k)
        /\ AllAccounts' = [AccountsWith(NewOrder.account, reply'.account)
                              EXCEPT ![NewOrder.account].orders = Append(@, id)]
        /\ reply'.ok /\ reply'.id = id /\ reply'.fills = <<>> /\ ~reply'.open]_vars

\* an IOC order and an FOK order have got nothing and are closed with qty 0,
\* the IOC order because the order that rests is not at an admissible price,
\* the FOK order because that order is smaller than itself; the quote is that
\* of the book with the resting order alone, and no event was emitted
C20_Witness ==
    /\ HighestKnownOrder = 2
    /\ Order(0).orderType = LIMIT /\ Order(0).open /\ Order(0).qty = 1
    /\ Order(0).totalFilled = 0
    /\ Order(1).orderType = IOC /\ Order(1).direction # Order(0).direction
    /\ Order(1).price # Order(0).price
    /\ Order(2).orderType = FOK /\ Order(2).direction # Order(0).direction
    /\ Order(2).price = Order(0).price /\ Order(2).originalQty = 2
    /\ \A k \in {1, 2} : ~Order(k).open /\ Order(k).qty = 0 /\ Order(k).fills = <<>>
    /\ AllAccounts[0].orders = <<0, 1, 2>>
    /\ Quote.bidDepth + Quote.askDepth = 1
    /\ events = <<>>

----------------------------------------------------------------------------
(* C21: an accepted ORDER emits one ticker if it is a LIMIT order or got at *)
(* least one fill, and none otherwise; a ticker is emitted if and only if   *)
(* the book after the command differs from the book before it.              *)

\* a side of the book as a client can tell it: the levels with their prices
\* and, in time order, the orders of each level with what is left of them
BookSide(chain, orders) ==
    [i \in 1..Len(chain) |->
        [price |-> chain[i].price,
         nodes |-> [j \in 1..Len(chain[i].nodes) |->
                       [id |-> chain[i].nodes[j],
                        qty |-> orders[chain[i].nodes[j] + 1].qty]]]]

Book == [bids |-> BookSide(FirstBidLevel, AllOrders),
         asks |-> BookSide(FirstAskLevel, AllOrders)]

IsTicker(e) == e.type = "TICKER"

Tickers(evs) == SelectSeq(evs, IsTicker)

C21_Ticker ==
    [][Accepted =>
        /\ Len(Tickers(events'))
               = (IF NewOrder.orderType = LIMIT \/ NewOrder.fills # <<>> THEN 1 ELSE 0)
        /\ (Len(Tickers(events')) = 1) <=> (Book' # Book)]_vars

\* a LIMIT order has taken one of the two shares of the order that rests: the
\* chains hold the same order as before, with one share less, and the command
\* emitted its executions and one ticker
C21_Witness ==
    /\ HighestKnownOrder = 1
    /\ Order(0).open /\ Order(0).originalQty = 2 /\ Order(0).qty = 1
    /\ Order(1).orderType = LIMIT /\ ~Order(1).open /\ Order(1).totalFilled = 1
    /\ BookIds = {0}
    /\ Len(Tickers(events)) = 1
    /\ Len(ExecutionMessages(events)) = 2

----------------------------------------------------------------------------
(* C22: the events of one ORDER command.  Each cross gives two execution    *)
(* messages, the first to the account of the standing order and the second  *)
(* to the account of the incoming order; the pairs come in the order of the *)
(* crosses; the ticker, if there is one, comes last and carries the quote   *)
(* as the command leaves it.  `events` is what one command wrote: commands  *)
(* are handled one after the other, so what a command writes follows all    *)
(* that the commands before it wrote.                                      *)

\* timestamp a was issued before timestamp b
Earlier(a, b) == a[1] < b[1] \/ (a[1] = b[1] /\ a[2] < b[2])

C22_EventOrder ==
    [][Accepted =>
        LET n == Len(NewOrder.fills)
            last == Len(events')
        IN  /\ last \in {2 * n, 2 * n + 1}
            /\ \A k \in 1..n :
                LET sm == events'[2 * k - 1]
                    im == events'[2 * k]
                    fill == NewOrder.fills[k]
                IN  /\ IsStandingMessage(sm) /\ IsIncomingMessage(im)
                    /\ sm.standingId # id /\ im.standingId = sm.standingId
                    /\ sm.incomingId = id /\ im.incomingId = id
                    /\ sm.account = AllAccounts[Order(sm.standingId).account].name
                    /\ im.account = AllAccounts'[NewOrder.account].name
                    /\ sm.filledAt = fill.ts /\ im.filledAt = fill.ts
                    /\ sm.filled = fill.qty /\ im.filled = fill.qty
                    /\ sm.price = fill.price /\ im.price = fill.price
                    /\ k > 1 => Earlier(NewOrder.fills[k - 1].ts, fill.ts)
            /\ last = 2 * n + 1 =>
                /\ events'[last] = create_ticker_message(Quote')
                /\ \A k \in 1..n : Earlier(NewOrder.fills[k].ts, Quote'.quoteTime)]_vars

\* a command has crossed two standing orders: two pairs of execution messages,
\* the standing order's first in each, and then the ticker
C22_Witness ==
    /\ Len(events) = 5
    /\ IsStandingMessage(events[1]) /\ IsIncomingMessage(events[2])
    /\ IsStandingMessage(events[3]) /\ IsIncomingMessage(events[4])
    /\ events[1].standingId # events[3].standingId
    /\ IsTicker(events[5])
    /\ events[5].quote = print_quote(Quote)

----------------------------------------------------------------------------
(* C23: between commands the quote is that of the book.  bid and ask are    *)
(* the prices of the best levels and are not printed for an empty side;     *)
(* bidSize and askSize are the qty at the best level; bidDepth and askDepth *)
(* are the qty of the whole side; so a size is at most its depth.  This     *)
(* holds after the commands that emit no ticker as well.                    *)

QuoteSide(best, size, depth) == [best |-> best, size |-> size, depth |-> depth]

C23_QuoteFresh ==
    /\ QuoteSide(Quote.bid, Quote.bidSize, Quote.bidDepth)
           = SideOfQuote(FirstBidLevel, AllOrders)
    /\ QuoteSide(Quote.ask, Quote.askSize, Quote.askDepth)
           = SideOfQuote(FirstAskLevel, AllOrders)
    /\ print_quote(Quote).bid
           = (IF FirstBidLevel = <<>> THEN {} ELSE {FirstBidLevel[1].price})
    /\ print_quote(Quote).ask
           = (IF FirstAskLevel = <<>> THEN {} ELSE {FirstAskLevel[1].price})
    /\ Quote.bidSize <= Quote.bidDepth
    /\ Quote.askSize <= Quote.askDepth

\* two bid levels rest and the last command, an FOK order to sell more than
\* its limit admits, got nothing and emitted no ticker: the quote still tells
\* the book, with a size smaller than the depth
C23_Witness ==
    /\ Len(FirstBidLevel) = 2
    /\ FirstAskLevel = <<>>
    /\ Quote.bidSize < Quote.bidDepth
    /\ Order(HighestKnownOrder).orderType = FOK
    /\ Order(HighestKnownOrder).direction = SELL
    /\ Order(HighestKnownOrder).fills = <<>>
    /\ reply.id = HighestKnownOrder
    /\ events = <<>>

----------------------------------------------------------------------------
(* C24: last, lastSize and lastTrade of the quote change with a cross and   *)
(* with nothing else.  They are absent as long as no order has a fill; a    *)
(* CANCEL and an ORDER without a fill leave them as they are; after an      *)
(* ORDER with fills, last and lastSize are the price and the qty of the     *)
(* last of its fills.                                                       *)

LastInfo == [last |-> Quote.last, lastSize |-> Quote.lastSize,
             lastTrade |-> Quote.lastTrade]

NoCrossYet == \A k \in OrderIds : Order(k).fills = <<>>

C24_Absent ==
    NoCrossYet => /\ print_quote(Quote).last = {}
                  /\ print_quote(Quote).lastSize = {}
                  /\ print_quote(Quote).lastTrade = {}

C24_Step ==
    /\ (Accepted /\ NewOrder.fills = <<>>) => LastInfo' = LastInfo
    /\ ~Accepted => LastInfo' = LastInfo
    /\ (Accepted /\ NewOrder.fills # <<>>) =>
        LET final == NewOrder.fills[Len(NewOrder.fills)]
        IN  /\ print_quote(Quote').last = {final.price}
            /\ print_quote(Quote').lastSize = {final.qty}
            /\ print_quote(Quote').lastTrade # {}

C24_LastInfo == []C24_Absent /\ [][C24_Step]_vars

\* an order was filled in part and what rested of it has been cancelled: the
\* ticker of the CANCEL carries the price and the size of the cross
C24_Witness ==
    /\ HighestKnownOrder = 1
    /\ Order(1).orderType = LIMIT /\ ~Order(1).open /\ Order(1).qty = 0
    /\ Order(1).originalQty = 2 /\ Order(1).totalFilled = 1
    /\ BookIds = {}
    /\ Len(events) = 1 /\ IsTicker(events[1])
    /\ events[1].quote.last = {Order(1).fills[1].price}
    /\ events[1].quote.lastSize = {1}
    /\ events[1].quote.bidDepth = 0 /\ events[1].quote.askDepth = 0

----------------------------------------------------------------------------
(* C25: once an order has a fill, lastTrade of the quote is the timestamp   *)
(* of the fill recorded last, the one stored on both orders of that cross   *)
(* and carried by its execution messages; it is empty if and only if no     *)
(* order has a fill.                                                        *)

\* the timestamps of the fills of all orders
AllFillTimes ==
    UNION {{Order(k).fills[j].ts : j \in 1..Len(Order(k).fills)} : k \in OrderIds}

LastFillTime == CHOOSE t \in AllFillTimes : \A u \in AllFillTimes : u = t \/ Earlier(u, t)

C25_LastTrade ==
    /\ (Quote.lastTrade = NoTimestamp) <=> NoCrossYet
    /\ ~NoCrossYet => Quote.lastTrade = LastFillTime

----------------------------------------------------------------------------
(* MARKET orders larger than what rests, with any price on the command *)

MarketQtys == {1, 2, 3}
MarketPrices == {0, 1, 3}

OrderLimit ==
    \E qty \in Qtys, price \in Prices, direction \in Directions :
        ORDER("A", 0, qty, price, direction, LIMIT)

OrderMarket ==
    \E qty \in MarketQtys, price \in MarketPrices, direction \in Directions :
        ORDER("A", 0, qty, price, direction, MARKET)

NextMarket == OrderLimit \/ OrderMarket \/ CancelCommand

SpecMarket == Init /\ [][NextMarket]_vars

----------------------------------------------------------------------------
(* C26: a MARKET order crosses the orders of the opposite side from the     *)
(* best level outward, whatever the price on its command, until it is       *)
(* filled or that side is empty; what is left of it is closed and does not  *)
(* rest; its stored price is 0 after the command, and each of its fills has *)
(* the price of the standing order it crossed.                              *)

\* what is left of an order of qty shares after the first k of the fills
RECURSIVE LeftAfter(_, _, _)
LeftAfter(qty, fills, k) ==
    IF k = 0 THEN qty ELSE LeftAfter(qty, fills, k - 1) - fills[k].qty

C26_Market ==
    [][(Accepted /\ NewOrder.orderType = MARKET) =>
        LET own == IF NewOrder.direction = SELL THEN FirstAskLevel ELSE FirstBidLevel
            opposite == IF NewOrder.direction = SELL THEN FirstBidLevel ELSE FirstAskLevel
            own2 == IF NewOrder.direction = SELL THEN FirstAskLevel' ELSE FirstBidLevel'
            opposite2 == IF NewOrder.direction = SELL THEN FirstBidLevel' ELSE FirstAskLevel'
            resting == ChainIds(opposite)
            there == QtyOf(Range(resting), AllOrders)
            n == Len(NewOrder.fills)
        IN  /\ NewOrder.totalFilled = Min(NewOrder.originalQty, there)
            /\ n <= Len(resting)
            /\ \A k \in 1..n :
                LET s == Order(resting[k])
                    left == LeftAfter(NewOrder.originalQty, NewOrder.fills, k - 1)
                IN  /\ NewOrder.fills[k].price = s.price
                    /\ NewOrder.fills[k].qty = Min(s.qty, left)
                    /\ left > 0
            /\ NewOrder.totalFilled < NewOrder.originalQty => opposite2 = <<>>
            /\ ~NewOrder.open /\ NewOrder.qty = 0 /\ NewOrder.price = 0
            /\ own2 = own
            /\ \A level \in Range(opposite2) : id \notin Range(level.nodes)]_vars

\* bids rested at two prices and a MARKET order to sell, larger than both
\* together and with a price above both on its command, took the better bid,
\* then the other, and was closed with one share not sold; no bid is left
C26_Witness ==
    /\ HighestKnownOrder = 2
    /\ Order(0).direction = BUY /\ Order(1).direction = BUY
    /\ Order(0).price = 1 /\ Order(1).price = 2
    /\ Order(2).orderType = MARKET /\ Order(2).direction = SELL
    /\ Order(2).originalQty = 3 /\ Order(2).totalFilled = 2
    /\ Order(2).price = 0 /\ ~Order(2).open /\ Order(2).qty = 0
    /\ Len(Order(2).fills) = 2
    /\ Order(2).fills[1].price = 2 /\ Order(2).fills[2].price = 1
    /\ FirstBidLevel = <<>> /\ FirstAskLevel = <<>>
    /\ reply.price = 0 /\ reply.orderType = "market"

----------------------------------------------------------------------------
(* The query commands, two accounts and a wall clock that goes on *)

\* a variant of QUOTE that makes the quote anew before it prints it:
\* C28 tells it from QUOTE
QUOTE_remake ==
    /\ fault = "none"
    /\ LET rq == remake_most_of_quote(Quote, FirstBidLevel, FirstAskLevel, AllOrders,
                                      clock, wall)
       IN  /\ Quote' = rq.quote
           /\ clock' = rq.clk
           /\ reply' = print_quote(rq.quote)
    /\ events' = <<>>
    /\ UNCHANGED <<AllOrders, HighestKnownOrder, id, AllAccounts, CurrentAccountArrayLen,
                   FirstBidLevel, FirstAskLevel, wall, fault, call>>

\* the QUOTE branch of main()
QUOTE ==
    /\ fault = "none"
    /\ reply' = print_quote(Quote)
    /\ events' = <<>>
    /\ UNCHANGED <<AllOrders, HighestKnownOrder, id, AllAccounts, CurrentAccountArrayLen,
                   FirstBidLevel, FirstAskLevel, Quote, clock, wall, fault, call>>

AccountNotKnown == [ok |-> FALSE, error |-> "Account not known on this book"]

\* a variant of print_all_orders_of_account that prints the orders of the
\* account last first: C27 tells it from print_all_orders_of_account
print_all_orders_of_account_reversed(account, orders, accounts) ==
    [ok |-> TRUE,
     orders |-> [n \in 1..Len(account.orders) |->
                    print_order(orders[account.orders[Len(account.orders) + 1 - n] + 1],
                                accounts)]]

\* print_all_orders_of_account(): the orders of the account as print_order()
\* prints them, from orders[0] to orders[count - 1]
print_all_orders_of_account(account, orders, accounts) ==
    [ok |-> TRUE,
     orders |-> [n \in 1..Len(account.orders) |->
                    print_order(orders[account.orders[n] + 1], accounts)]]

\* the STATUSALL branch of main()
STATUSALL(account_id) ==
    /\ fault = "none"
    /\ reply' = IF account_id < 0 \/ account_id >= CurrentAccountArrayLen
                   \/ account_id \notin DOMAIN AllAccounts
                THEN AccountNotKnown
                ELSE print_all_orders_of_account(AllAccounts[account_id], AllOrders,
                                                 AllAccounts)
    /\ events' = <<>>
    /\ UNCHANGED <<AllOrders, HighestKnownOrder, id, AllAccounts, CurrentAccountArrayLen,
                   FirstBidLevel, FirstAskLevel, Quote, clock, wall, fault, call>>

\* the four bytes putc() writes for a value, the highest first
BigEndian(x) == <<(x \div 16777216) % 256, (x \div 65536) % 256, (x \div 256) % 256, x % 256>>

\* print_orderbook_binary(): qty and price of the orders of one level
RECURSIVE binary_of_nodes(_, _)
binary_of_nodes(nodes, orders) ==
    IF nodes = <<>> THEN <<>>
    ELSE BigEndian(orders[Head(nodes) + 1].qty) \o BigEndian(orders[Head(nodes) + 1].price)
         \o binary_of_nodes(Tail(nodes), orders)

\* print_orderbook_binary(): the orders of one side, then eight zero bytes
RECURSIVE binary_of_levels(_, _)
binary_of_levels(chain, orders) ==
    IF chain = <<>> THEN <<0, 0, 0, 0, 0, 0, 0, 0>>
    ELSE binary_of_nodes(Head(chain).nodes, orders) \o binary_of_levels(Tail(chain), orders)

print_orderbook_binary(bids, asks, orders) ==
    binary_of_levels(bids, orders) \o binary_of_levels(asks, orders)

\* the ORDERBOOK_BINARY branch of main()
ORDERBOOK_BINARY ==
    /\ fault = "none"
    /\ reply' = [binary |-> print_orderbook_binary(FirstBidLevel, FirstAskLevel,
                                                    AllOrders)]
    /\ events' = <<>>
    /\ UNCHANGED <<AllOrders, HighestKnownOrder, id, AllAccounts, CurrentAccountArrayLen,
                   FirstBidLevel, FirstAskLevel, Quote, clock, wall, fault, call>>

\* the second time(NULL) returns goes up between two commands
MaxSecond == 1

Tick ==
    /\ wall < MaxSecond
    /\ wall' = wall + 1
    /\ UNCHANGED <<AllOrders, HighestKnownOrder, id, AllAccounts, CurrentAccountArrayLen,
                   FirstBidLevel, FirstAskLevel, Quote, clock, events, reply, fault, call>>

\* the accounts of the clients that ask, 2 being the id of no account
QueryAccounts == {-1, 0, 1, 2}

OrderQueries ==
    \E account_int \in TwoAccountInts, direction \in Directions,
       orderType \in {LIMIT, MARKET} :
        ORDER(IF account_int = 0 THEN "A" ELSE "B", account_int, 1, 1, direction, orderType)

StatusAllAny == \E account_id \in QueryAccounts : STATUSALL(account_id)

NextQueries ==
    \/ OrderQueries
    \/ CancelCommand
    \/ QUOTE
    \/ StatusAny
    \/ StatusAllAny
    \/ ORDERBOOK_BINARY
    \/ Tick

SpecQueries == Init /\ [][NextQueries]_vars

----------------------------------------------------------------------------
(* C27: the order list of an account holds the accepted orders that were    *)
(* submitted with its account_int, each once, in the order of their ids,    *)
(* and it only grows; every stored order is in the list of one account,     *)
(* once; STATUSALL prints the orders of the account in that order.          *)

OrdersOf(n) == {k \in OrderIds : Order(k).account = n}

\* the members of a set of ids, the lowest first
RECURSIVE Ascending(_)
Ascending(S) ==
    IF S = {} THEN <<>>
    ELSE LET top == CHOOSE k \in S : \A j \in S : j <= k
         IN  Append(Ascending(S \ {top}), top)

\* the places where order k stands in the lists of the accounts
PlacesOf(k) ==
    {<<n, j>> \in (DOMAIN AllAccounts) \X (1..MaxOrders) :
        j <= Len(AllAccounts[n].orders) /\ AllAccounts[n].orders[j] = k}

C27_Lists ==
    /\ \A n \in DOMAIN AllAccounts : AllAccounts[n].orders = Ascending(OrdersOf(n))
    /\ \A k \in OrderIds : PlacesOf(k) = {<<Order(k).account, Cardinality(
                                {j \in OrdersOf(Order(k).account) : j <= k})>>}

C27_Grows ==
    \A n \in DOMAIN AllAccounts :
        /\ n \in DOMAIN AllAccounts'
        /\ Len(AllAccounts[n].orders) <= Len(AllAccounts'[n].orders)
        /\ \A j \in 1..Len(AllAccounts[n].orders) :
            AllAccounts'[n].orders[j] = AllAccounts[n].orders[j]

C27_StatusAll ==
    \A a \in QueryAccounts :
        STATUSALL(a) =>
            IF a \in DOMAIN AllAccounts
            THEN /\ reply'.ok
                 /\ DOMAIN reply'.orders = 1..Cardinality(OrdersOf(a))
                 /\ \A j \in DOMAIN reply'.orders :
                     reply'.orders[j] = print_order(Order(Ascending(OrdersOf(a))[j]),
                                                    AllAccounts)
            ELSE reply' = AccountNotKnown

C27_AccountLists == []C27_Lists /\ [][C27_Grows /\ C27_StatusAll]_vars

\* account 0 has sent the first and the third order and account 1 the second,
\* and STATUSALL of account 0 has printed orders 0 and 2 in this order
C27_Witness ==
    /\ HighestKnownOrder = 2
    /\ Order(0).account = 0 /\ Order(1).account = 1 /\ Order(2).account = 0
    /\ AllAccounts[0].orders = <<0, 2>> /\ AllAccounts[1].orders = <<1>>
    /\ reply # <<>> /\ "orders" \in DOMAIN reply
    /\ DOMAIN reply.orders = {1, 2}
    /\ reply.orders[1].id = 0 /\ reply.orders[2].id = 2

----------------------------------------------------------------------------
(* C28: QUOTE, STATUS, STATUSALL and ORDERBOOK_BINARY change nothing of the *)
(* book, the orders, the accounts and the quote.  A QUOTE that follows a    *)
(* QUOTE prints the same quote, quoteTime or not; and quoteTime never goes  *)
(* back, whatever the commands are.                                         *)

QueryCommand == QUOTE \/ StatusAny \/ StatusAllAny \/ ORDERBOOK_BINARY

Engine == <<AllOrders, HighestKnownOrder, id, AllAccounts, CurrentAccountArrayLen,
            FirstBidLevel, FirstAskLevel, Quote, clock>>

IsQuoteReply(r) == "bidSize" \in DOMAIN r

WithoutQuoteTime(r) == [f \in (DOMAIN r) \ {"quoteTime"} |-> r[f]]

C28_ReadOnly == QueryCommand => UNCHANGED Engine

C28_QuoteTwice ==
    (QUOTE /\ IsQuoteReply(reply)) =>
        /\ IsQuoteReply(reply')
        /\ WithoutQuoteTime(reply') = WithoutQuoteTime(reply)
        /\ reply'.quoteTime = reply.quoteTime

C28_QuoteTime ==
    Quote'.quoteTime = Quote.quoteTime \/ Earlier(Quote.quoteTime, Quote'.quoteTime)

----------------------------------------------------------------------------
(* new_timestamp() by itself, called again and again while the wall clock   *)
(* stays, goes on or is set back.  `call` holds the timestamp issued last,  *)
(* the number of calls, and whether the wall clock has been set back.       *)

MaxClockSecond == 2
MaxCalls == 4

\* fake_micro after a million calls but two within one second
ManyCalls == 999998

\* either no call has been made (last_time = {0} is the time of no call), or
\* ManyCalls + 1 calls have been made in the second the wall clock shows
InitTimestamps ==
    /\ AllOrders = <<>>
    /\ HighestKnownOrder = -1
    /\ id = 0
    /\ AllAccounts = <<>>
    /\ CurrentAccountArrayLen = 0
    /\ FirstBidLevel = <<>>
    /\ FirstAskLevel = <<>>
    /\ Quote = [bidSize |-> 0, askSize |-> 0, bidDepth |-> 0, askDepth |-> 0,
                bid |-> -1, ask |-> -1, last |-> -1, lastSize |-> -1,
                lastTrade |-> NoTimestamp, quoteTime |-> NoTimestamp]
    /\ events = <<>>
    /\ reply = <<>>
    /\ fault = "none"
    /\ wall \in 0..MaxClockSecond
    /\ \/ /\ clock = [last_time |-> -1, fake_micro |-> 0]
          /\ call = [ts |-> NoTimestamp, calls |-> 0, regressed |-> FALSE]
       \/ /\ clock = [last_time |-> wall, fake_micro |-> ManyCalls]
          /\ call = [ts |-> <<wall, ManyCalls>>, calls |-> 0, regressed |-> FALSE]

NewTimestamp ==
    /\ call.calls < MaxCalls
    /\ LET t == new_timestamp(clock, wall)
       IN  /\ clock' = t.clk
           /\ call' = [call EXCEPT !.ts = t.ts, !.calls = @ + 1]
    /\ UNCHANGED <<AllOrders, HighestKnownOrder, id, AllAccounts, CurrentAccountArrayLen,
                   FirstBidLevel, FirstAskLevel, Quote, wall, events, reply, fault>>

ClockForward ==
    /\ wall < MaxClockSecond
    /\ wall' = wall + 1
    /\ UNCHANGED <<AllOrders, HighestKnownOrder, id, AllAccounts, CurrentAccountArrayLen,
                   FirstBidLevel, FirstAskLevel, Quote, clock, events, reply, fault, call>>

ClockBack ==
    /\ wall > 0
    /\ wall' = wall - 1
    /\ call' = [call EXCEPT !.regressed = TRUE]
    /\ UNCHANGED <<AllOrders, HighestKnownOrder, id, AllAccounts, CurrentAccountArrayLen,
                   FirstBidLevel, FirstAskLevel, Quote, clock, events, reply, fault>>

NextTimestamps == NewTimestamp \/ ClockForward \/ ClockBack

SpecTimestamps == InitTimestamps /\ [][NextTimestamps]_vars

----------------------------------------------------------------------------
(* C29: as long as the wall clock has not been set back, each timestamp     *)
(* new_timestamp() issues compares above the one it issued before: within a *)
(* second the microsecond field goes up by one with each call, and it is 0  *)
(* at the first call of a second.                                           *)

\* text s comes before text t, character by character
RECURSIVE TextBeforeFrom(_, _, _)
TextBeforeFrom(s, t, i) ==
    IF i > Len(t) THEN FALSE
    ELSE IF i > Len(s) THEN TRUE
    ELSE IF s[i] # t[i] THEN s[i] < t[i]
    ELSE TextBeforeFrom(s, t, i + 1)

\* timestamp a comes before timestamp b as texts
TextBefore(a, b) ==
    \/ a.second < b.second
    \/ a.second = b.second /\ TextBeforeFrom(a.fraction, b.fraction, 1)

C29_Counter ==
    NewTimestamp =>
        /\ call'.ts[1] = wall
        /\ (call.ts # NoTimestamp /\ call.ts[1] = wall) => call'.ts[2] = call.ts[2] + 1
        /\ (call.ts # NoTimestamp /\ call.ts[1] # wall) => call'.ts[2] = 0

C29_Order ==
    (NewTimestamp /\ call.ts # NoTimestamp /\ ~call.regressed) =>
        TextBefore(timestamp_text(call.ts), timestamp_text(call'.ts))

C29_Monotonic == [][C29_Counter /\ C29_Order]_vars

----------------------------------------------------------------------------
(* ORDER commands with any integer for the type and the direction *)

\* atoi() of the token gives 0 if there is none on the line
TypeCodes == {-1, 0, LIMIT, MARKET, FOK, IOC, 5}
DirectionCodes == {0, BUY, SELL, 3}

OrderAnyType ==
    \E direction \in DirectionCodes, orderType \in TypeCodes :
        ORDER("A", 0, 1, 1, direction, orderType)

NextTypes == OrderAnyType \/ CancelCommand

SpecTypes == Init /\ [][NextTypes]_vars

----------------------------------------------------------------------------
(* C30: every order in the order store has an order type among LIMIT,       *)
(* MARKET, IOC and FOK and a direction among BUY and SELL, whatever the     *)
(* integers for type and direction on the ORDER command were.               *)

C30_Directions == \A k \in OrderIds : Order(k).direction \in {BUY, SELL}

C30_OrderTypes == \A k \in OrderIds : Order(k).orderType \in {LIMIT, MARKET, IOC, FOK}

C30_TypesAndDirections == C30_OrderTypes /\ C30_Directions

----------------------------------------------------------------------------
(* C31: when the matcher returns, the closed orders of the side it ran      *)
(* against are the first orders of that side in priority order, every       *)
(* closed order being ahead of every open one; so the cleanup, which goes   *)
(* from the head to the first open order, takes out every closed order and  *)
(* every level left without an open order, leaves the first open order at   *)
(* the head, and meets no level without a node: its assertions hold.  This  *)
(* is stated of every state the program reaches and of every ORDER command  *)
(* that passes the checks of execute_order() in that state.                 *)

\* the program state when run_order() has returned to execute_order(), or when
\* an FOK order was not run
MatcherReturn(account_name, account_int, qty, price, direction, orderType) ==
    execute_order_run(
        execute_order_init(account_int, qty, price, direction, orderType, next_id(id),
            account_lookup_or_create(AllAccounts, CurrentAccountArrayLen,
                                     account_name, account_int),
            new_timestamp(clock, wall)),
        next_id(id), qty, price, direction, orderType)

\* the side an order of this direction is run against
OppositeChain(direction) == IF direction = SELL THEN FirstBidLevel ELSE FirstAskLevel

\* in the sequence of ids no open order is ahead of a closed one
ClosedFirst(ids, orders) ==
    \A a \in 1..Len(ids), b \in 1..Len(ids) :
        (a < b /\ orders[ids[a] + 1].open) => orders[ids[b] + 1].open

\* the chain without its closed orders and without the levels that held no
\* other
RECURSIVE OpenLevels(_, _)
OpenLevels(chain, orders) ==
    IF chain = <<>> THEN <<>>
    ELSE LET IsOpen(k) == orders[k + 1].open
             nodes == SelectSeq(Head(chain).nodes, IsOpen)
         IN  IF nodes = <<>> THEN OpenLevels(Tail(chain), orders)
             ELSE <<[price |-> Head(chain).price, nodes |-> nodes]>>
                      \o OpenLevels(Tail(chain), orders)

\* cl is what the cleanup makes of the chain
Cleaned(cl, chain, orders) ==
    /\ cl.ok
    /\ cl.chain = OpenLevels(chain, orders)
    /\ \A l \in 1..Len(cl.chain) : cl.chain[l].nodes # <<>>
    /\ cl.chain # <<>> => orders[cl.chain[1].nodes[1] + 1].open
    /\ \A l \in 1..Len(cl.chain) : \A n \in 1..Len(cl.chain[l].nodes) :
           orders[cl.chain[l].nodes[n] + 1].open

C31_AtReturn(orders, chain) ==
    /\ \A l \in 1..Len(chain) : chain[l].nodes # <<>>
    /\ ClosedFirst(ChainIds(chain), orders)
    /\ Cleaned(cleanup_closed_bids_or_asks(chain, orders), chain, orders)

C31_ClosedPrefix ==
    /\ fault # "assert"
    /\ \A account_name \in Names, account_int \in AccountInts, qty \in Qtys,
          price \in Prices, direction \in Directions, orderType \in OrderTypes :
           C31_AtReturn(MatcherReturn(account_name, account_int, qty, price,
                                      direction, orderType).orders,
                        OppositeChain(direction))

\* a sell has been run against bids at two prices: it has filled the bid at the
\* better price completely and the next bid in part, the level of the first is
\* gone and the second bid is at the head of the bids
C31_Witness ==
    /\ fault = "none"
    /\ Len(Crosses(events)) = 2
    /\ Crosses(events)[1].price > Crosses(events)[2].price
    /\ Crosses(events)[1].standingComplete
    /\ ~Crosses(events)[2].standingComplete
    /\ ~Order(Crosses(events)[1].standingId).open
    /\ Len(FirstBidLevel) = 1
    /\ FirstBidLevel[1].nodes[1] = Crosses(events)[2].standingId

----------------------------------------------------------------------------
(* C32: between commands an order is open if and only if it is in the book, *)
(* and an open order is in the book once: in the bids if it is a buy and in *)
(* the asks if it is a sell, in the level of its own price, and it is a     *)
(* LIMIT order; so CANCEL, which looks for the level of the order's price   *)
(* on the order's side and for the order's node in it, finds every open     *)
(* order.                                                                   *)

\* the places <<level, node>> of the chain that hold order k
BookPlaces(chain, k) ==
    {p \in (1..Len(chain)) \X (1..(HighestKnownOrder + 1)) :
        p[2] <= Len(chain[p[1]].nodes) /\ chain[p[1]].nodes[p[2]] = k}

\* the side of the book for orders of this direction
OwnChain(direction) == IF direction = BUY THEN FirstBidLevel ELSE FirstAskLevel

\* what cancel_order_by_id() looks up for order k: the level, then the node
CancelFinds(k) ==
    /\ find_level(Order(k).price, Order(k).direction, FirstBidLevel, FirstAskLevel) # 0
    /\ find_ordernode(OwnChain(Order(k).direction),
                      find_level(Order(k).price, Order(k).direction,
                                 FirstBidLevel, FirstAskLevel),
                      k) # 0

C32_OpenIffInBook ==
    /\ BookIds \subseteq OrderIds
    /\ \A l \in 1..Len(FirstBidLevel) : Len(FirstBidLevel[l].nodes) <= HighestKnownOrder + 1
    /\ \A l \in 1..Len(FirstAskLevel) : Len(FirstAskLevel[l].nodes) <= HighestKnownOrder + 1
    /\ \A k \in OrderIds :
        /\ Order(k).open <=> k \in BookIds
        /\ Order(k).open =>
            /\ Cardinality(BookPlaces(FirstBidLevel, k))
                   + Cardinality(BookPlaces(FirstAskLevel, k)) = 1
            /\ BookPlaces(OwnChain(Opposite(Order(k).direction)), k) = {}
            /\ \A p \in BookPlaces(OwnChain(Order(k).direction), k) :
                   OwnChain(Order(k).direction)[p[1]].price = Order(k).price
            /\ Order(k).orderType = LIMIT
            /\ CancelFinds(k)

\* two buys are open at two prices, each in the level of its price, and a
\* third order, a limit order that was cancelled, is closed and not in the book
C32_Witness ==
    /\ fault = "none"
    /\ Len(FirstBidLevel) = 2
    /\ \E a \in OrderIds, b \in OrderIds, c \in OrderIds :
        /\ Order(a).open /\ Order(b).open /\ ~Order(c).open
        /\ FirstBidLevel[1].nodes = <<a>> /\ FirstBidLevel[1].price = Order(a).price
        /\ FirstBidLevel[2].nodes = <<b>> /\ FirstBidLevel[2].price = Order(b).price
        /\ Order(c).orderType = LIMIT /\ Order(c).totalFilled = 0
        /\ c \notin BookIds

----------------------------------------------------------------------------
(* SpecConservation: limit and market orders of three accounts of three     *)
(* names, of qty 1 or of a qty so large that its amount at the higher price *)
(* is beyond the range of an int, so that the ledger is clamped in some     *)
(* behaviours and not in others.                                            *)

ConservationAccounts == {0, 1, 2}

\* qty and price of the orders: <<qty, price>>
ConservationOrders == {<<1, 1>>, <<1, 5>>, <<500000000, 5>>}

\* the name each client sends with its account id
ConservationName(account_int) == <<"A", "B", "C">>[account_int + 1]

OrderConservation ==
    \E account_int \in ConservationAccounts, o \in ConservationOrders,
       direction \in Directions, orderType \in {LIMIT, MARKET} :
        ORDER(ConservationName(account_int), account_int, o[1], o[2], direction,
              orderType)

NextConservation == OrderConservation \/ CancelCommand

SpecConservation == Init /\ [][NextConservation]_vars

----------------------------------------------------------------------------
(* C33: conservation.  As long as no clamp has been applied the shares of   *)
(* all accounts sum to 0 and the cents of all accounts sum to 0: they do at *)
(* the start, and a command none of whose crosses takes an account's shares *)
(* or cents out of the range of a clamped int leaves the sums at 0, each of *)
(* its crosses moving the quantity and the amount from the seller to the    *)
(* buyer, or nothing when both are of one name.  The sums and the amounts   *)
(* are computed exactly, in 64 bits.                                        *)

\* the amount the crosses give account n, signed, as an int64_t
RECURSIVE CentsMoved64(_, _)
CentsMoved64(cs, n) ==
    IF cs = <<>> THEN I64(0)
    ELSE IF SideOf(Head(cs), n) = 1
         THEN I64Sub(CentsMoved64(Tail(cs), n), I64Mul(I64(Head(cs).price), Head(cs).filled))
    ELSE IF SideOf(Head(cs), n) = -1
         THEN I64Add(CentsMoved64(Tail(cs), n), I64Mul(I64(Head(cs).price), Head(cs).filled))
    ELSE CentsMoved64(Tail(cs), n)

\* shares and cents of account n after the step if nothing is clamped
ExactShares(n) ==
    I64Add(I64(LedgerBefore(n).shares), I64(SharesMoved(Crosses(events'), n)))

ExactCents(n) == I64Add(I64(LedgerBefore(n).cents), CentsMoved64(Crosses(events'), n))

InClampRange(v) == ~I64Less(v, I64(0 - INT_CLAMP)) /\ ~I64Less(I64(INT_CLAMP), v)

\* the sums of a command's crosses stay in the range for every account: each
\* account is moved one way by one command, so no cross of it is clamped
NoClampInStep ==
    \A n \in DOMAIN AllAccounts' :
        InClampRange(ExactShares(n)) /\ InClampRange(ExactCents(n))

RECURSIVE SharesSum(_, _)
SharesSum(S, accounts) ==
    IF S = {} THEN I64(0)
    ELSE CHOOSE v \in {I64Add(I64(accounts[n].shares), SharesSum(S \ {n}, accounts)) :
                          n \in {CHOOSE m \in S : TRUE}} : TRUE

RECURSIVE CentsSum(_, _)
CentsSum(S, accounts) ==
    IF S = {} THEN I64(0)
    ELSE CHOOSE v \in {I64Add(I64(accounts[n].cents), CentsSum(S \ {n}, accounts)) :
                          n \in {CHOOSE m \in S : TRUE}} : TRUE

Conserved(accounts) ==
    /\ SharesSum(DOMAIN accounts, accounts) = I64(0)
    /\ CentsSum(DOMAIN accounts, accounts) = I64(0)

C33_Sums == (Conserved(AllAccounts) /\ NoClampInStep) => Conserved(AllAccounts')

C33_Moves ==
    NoClampInStep =>
        \A n \in DOMAIN AllAccounts' :
            /\ I64(AllAccounts'[n].shares) = ExactShares(n)
            /\ I64(AllAccounts'[n].cents) = ExactCents(n)

C33_Conservation == Conserved(AllAccounts) /\ [][C33_Sums /\ C33_Moves]_vars

\* three accounts hold shares and cents that are not 0 and are not clamped:
\* one has bought from the two others
C33_Witness ==
    /\ fault = "none"
    /\ DOMAIN AllAccounts = ConservationAccounts
    /\ \A n \in ConservationAccounts :
        /\ AllAccounts[n].shares # 0 /\ AllAccounts[n].cents # 0
        /\ AllAccounts[n].cents > 0 - INT_CLAMP /\ AllAccounts[n].cents < INT_CLAMP
    /\ Conserved(AllAccounts)

----------------------------------------------------------------------------
(* SpecStore: limit orders of qty 1 at price 1 for account ids on both      *)
(* sides of 0, of the chunk of 64 by which the account array grows, and of  *)
(* the cap of 5000.                                                         *)

\* atoi() of the token gives a negative int for a token such as -1
StoreAccounts == {-1, 0, ACCOUNT_CHUNK - 1, ACCOUNT_CHUNK, MAXACCOUNTS - 1, MAXACCOUNTS}

OrderStore ==
    \E account_int \in StoreAccounts, direction \in Directions :
        ORDER("A", account_int, 1, 1, direction, LIMIT)

NextStore == OrderStore \/ CancelCommand

SpecStore == Init /\ [][NextStore]_vars

----------------------------------------------------------------------------
(* C34: the account array is indexed inside its bounds.  For every integer  *)
(* account_int on an ORDER command, the negative ones too, an ORDER that    *)
(* passes the checks of execute_order() and so gets to                      *)
(* account_lookup_or_create() has 0 <= account_int < 5000, and account_int  *)
(* is below the length the array has when AllAccounts[account_int] is read, *)
(* which is the length after the array was grown.                           *)

\* CurrentAccountArrayLen when account_lookup_or_create() reads the array
LengthAtAccess(account_int) ==
    account_lookup_or_create(AllAccounts, CurrentAccountArrayLen, "A", account_int).arraylen

C34_Access ==
    \A account_int \in StoreAccounts, direction \in Directions :
        (/\ ORDER("A", account_int, 1, 1, direction, LIMIT)
         /\ execute_order_error(id, account_int, 1, 1, direction) = 0)
            => /\ 0 <= account_int
               /\ account_int < MAXACCOUNTS
               /\ account_int < LengthAtAccess(account_int)

C34_InBounds == [][C34_Access]_vars

====
